---- MODULE Spec2Model ----
(***************************************************************************)
(* A model of the flexmeasures-entsoe plugin: the resolution normaliser    *)
(* (resample_if_needed), the belief-time computation and packaging         *)
(* (save_entsoe_series), the CO2 intensity estimate and the two import     *)
(* commands (day-ahead generation, day-ahead prices).                      *)
(*                                                                         *)
(* Time is counted in ticks of 5 minutes on one local clock: tick 0 is a   *)
(* local midnight and a calendar day has Day ticks (no DST change inside   *)
(* the modelled window).  A pandas Series is a function from its           *)
(* timestamps (a finite set of ticks, kept ascending as entsoe-py returns  *)
(* them) to values.  A value is an exact rational <<n, d>> in lowest terms *)
(* with d > 0; <<0, 0>> is NaN and <<1, 0>>, <<-1, 0>> are +inf, -inf.     *)
(* Floating-point rounding is not modelled.                                *)
(***************************************************************************)
EXTENDS Integers, Sequences, FiniteSets, TLC

(***************************************************************************)
(* Program constants, in ticks of 5 minutes.                               *)
(***************************************************************************)
Min15 == 3
Hour == 12
SixHours == 72
Day == 288

(***************************************************************************)
(* Bounds of the model.                                                    *)
(***************************************************************************)
MaxLen == 4

(***************************************************************************)
(* Values: exact rationals with NaN and infinities.                        *)
(***************************************************************************)
Abs(x) == IF x < 0 THEN -x ELSE x

Sign(x) == IF x < 0 THEN -1 ELSE IF x = 0 THEN 0 ELSE 1

RECURSIVE GCD(_, _)
GCD(a, b) == IF b = 0 THEN a ELSE GCD(b, a % b)

Rat(n, d) ==
    IF d = 0 THEN <<Sign(n), 0>>
    ELSE LET g == GCD(Abs(n), Abs(d))
             s == Sign(d)
         IN  <<(s * n) \div g, (s * d) \div g>>

NaN == <<0, 0>>

Num(x) == Rat(x, 1)

IsFinite(a) == a[2] # 0

FAdd(a, b) ==
    IF IsFinite(a) /\ IsFinite(b) THEN Rat(a[1] * b[2] + b[1] * a[2], a[2] * b[2])
    ELSE IF IsFinite(a) THEN b
    ELSE IF IsFinite(b) THEN a
    ELSE IF a = b THEN a ELSE NaN

FMul(a, b) ==
    IF IsFinite(a) /\ IsFinite(b) THEN Rat(a[1] * b[1], a[2] * b[2])
    ELSE <<Sign(a[1]) * Sign(b[1]), 0>>

FDiv(a, b) ==
    IF a = NaN \/ b = NaN THEN NaN
    ELSE IF ~IsFinite(b) THEN (IF IsFinite(a) THEN Num(0) ELSE NaN)
    ELSE IF b[1] = 0 THEN <<Sign(a[1]), 0>>
    ELSE IF ~IsFinite(a) THEN <<Sign(a[1]) * Sign(b[1]), 0>>
    ELSE Rat(a[1] * b[2], a[2] * b[1])

(***************************************************************************)
(* Series helpers.                                                         *)
(***************************************************************************)
SetMin(S) == CHOOSE x \in S : \A y \in S : x <= y

SetMax(S) == CHOOSE x \in S : \A y \in S : y <= x

EmptySeries == <<>>

IsEmpty(s) == DOMAIN s = {}

RECURSIVE SumOver(_, _)
SumOver(s, T) ==
    IF T = {} THEN Num(0)
    ELSE LET t == SetMin(T) IN FAdd(s[t], SumOver(s, T \ {t}))

\* Series.mean(): NaN values are skipped; the mean of nothing is NaN.
Mean(s, T) ==
    LET V == {t \in T : s[t] # NaN}
    IN  IF V = {} THEN NaN ELSE FDiv(SumOver(s, V), Num(Cardinality(V)))

floor_D(t) == (t \div Day) * Day

(***************************************************************************)
(* resample_if_needed                                                      *)
(*                                                                         *)
(* A call either returns a series or raises: Returned(s), Raised(e).       *)
(***************************************************************************)
ValueError == "ValueError"

Returned(s) == [raised |-> "", value |-> s]

Raised(e) == [raised |-> e, value |-> EmptySeries]

\* pandas.infer_freq on an ascending DatetimeIndex: fewer than three
\* timestamps raise ValueError; otherwise the one spacing, or None.
infer_freq_two(idx) ==
    IF Cardinality(idx) < 2 THEN [kind |-> "raise", delta |-> 0]
    ELSE LET first == SetMin(idx)
             delta == SetMin(idx \ {first}) - first
         IN  IF \A t \in idx \ {SetMax(idx)} : t + delta \in idx
             THEN [kind |-> "freq", delta |-> delta]
             ELSE [kind |-> "none", delta |-> 0]

infer_freq(idx) ==
    IF Cardinality(idx) < 3 THEN [kind |-> "raise", delta |-> 0]
    ELSE LET first == SetMin(idx)
             delta == SetMin(idx \ {first}) - first
         IN  IF \A t \in idx \ {SetMax(idx)} : t + delta \in idx
             THEN [kind |-> "freq", delta |-> delta]
             ELSE [kind |-> "none", delta |-> 0]

\* pd.date_range(start, end, freq=freq, closed="left")
date_range_left(start, end, freq) ==
    {start + k * freq : k \in {j \in 0..(end - start) : start + j * freq < end}}

reindex(s, index) == [t \in index |-> IF t \in DOMAIN s THEN s[t] ELSE NaN]

pad_noop(s) == s

pad(s) ==
    [t \in DOMAIN s |->
        LET prev == {u \in DOMAIN s : u <= t /\ s[u] # NaN}
        IN  IF prev = {} THEN NaN ELSE s[SetMax(prev)]]

Upsample_to_last(s, inferred_resolution, target_resolution) ==
    LET index == date_range_left(SetMin(DOMAIN s),
                                 SetMax(DOMAIN s),
                                 target_resolution)
    IN  pad(reindex(s, index))

Upsample(s, inferred_resolution, target_resolution) ==
    LET index == date_range_left(SetMin(DOMAIN s),
                                 SetMax(DOMAIN s) + inferred_resolution,
                                 target_resolution)
    IN  pad(reindex(s, index))

\* Series.resample(rule): bins of width rule, closed and labelled on the
\* left, anchored at midnight of the first timestamp's day (origin
\* "start_day"), from the bin of the first to the bin of the last timestamp.
ResampleBins(idx, rule) ==
    LET origin == floor_D(SetMin(idx))
        lo == (SetMin(idx) - origin) \div rule
        hi == (SetMax(idx) - origin) \div rule
    IN  {origin + k * rule : k \in lo..hi}

ResampleSum(s, rule) ==
    [b \in ResampleBins(DOMAIN s, rule) |->
        SumOver(s, {t \in DOMAIN s : b <= t /\ t < b + rule})]

ResampleMean(s, rule) ==
    [b \in ResampleBins(DOMAIN s, rule) |->
        Mean(s, {t \in DOMAIN s : b <= t /\ t < b + rule})]

resample_if_needed_passthrough(s, target_resolution) ==
    LET inferred_frequency == infer_freq(DOMAIN s)
    IN  IF inferred_frequency.kind # "freq" THEN Returned(s)
        ELSE IF inferred_frequency.delta = target_resolution THEN Returned(s)
        ELSE IF inferred_frequency.delta > target_resolution
             THEN Returned(Upsample(s, inferred_frequency.delta, target_resolution))
             ELSE Returned(ResampleMean(s, target_resolution))

resample_if_needed_always(s, target_resolution) ==
    LET inferred_frequency == infer_freq(DOMAIN s)
    IN  IF inferred_frequency.kind # "freq" THEN Raised(ValueError)
        ELSE IF inferred_frequency.delta > target_resolution
             THEN Returned(Upsample(s, inferred_frequency.delta, target_resolution))
             ELSE Returned(ResampleMean(s, target_resolution))

resample_if_needed(s, target_resolution) ==
    LET inferred_frequency == infer_freq(DOMAIN s)
    IN  IF inferred_frequency.kind = "raise" THEN Raised(ValueError)
        ELSE IF inferred_frequency.kind = "none" THEN Raised(ValueError)
        ELSE LET inferred_resolution == inferred_frequency.delta
             IN  IF inferred_resolution = target_resolution THEN Returned(s)
                 ELSE IF inferred_resolution > target_resolution
                      THEN Returned(Upsample(s, inferred_resolution, target_resolution))
                      ELSE Returned(ResampleMean(s, target_resolution))

(***************************************************************************)
(* save_entsoe_series: belief times and the beliefs handed to the store.   *)
(***************************************************************************)
\* An optional argument is <<>> (None) or <<x>>.
NoneArg == <<>>

Some(x) == <<x>>

clip_nothing(x, upper) == x

\* DataFrame.clip(upper=...)
clip(x, upper) == IF x > upper THEN upper ELSE x

belief_times_end_of_day(index, now) ==
    [e \in index |-> clip(floor_D(e) + Day - SixHours, now)]

\* (series.index.floor("D") - pd.Timedelta("6h")) clipped at now, one per
\* event in the order of the index.
belief_times(index, now) == [e \in index |-> clip(floor_D(e) - SixHours, now)]

BeliefsDataFrame(series, source, sensor, belief_time) ==
    [event_value |-> series, source |-> source, sensor |-> sensor,
     belief_time |-> belief_time]

save_entsoe_series_bdf_at_save_time(series, sensor, entsoe_source, now, server_now) ==
    BeliefsDataFrame(series, entsoe_source, sensor,
                     belief_times(DOMAIN series, server_now))

\* The BeliefsDataFrame save_entsoe_series hands to save_to_db; server_now
\* is read only when no now is passed.
save_entsoe_series_bdf(series, sensor, entsoe_source, now, server_now) ==
    LET now_used == IF now = NoneArg THEN server_now ELSE now[1]
    IN  BeliefsDataFrame(series, entsoe_source, sensor,
                         belief_times(DOMAIN series, now_used))

(***************************************************************************)
(* The CO2 estimate of the generation import.                              *)
(***************************************************************************)
Columns == {"Solar", "Wind Onshore", "Wind Offshore"}

grey_energy_mix ==
    [gas |-> Rat(598, 1000), oil |-> Rat(45, 1000), coal |-> Rat(718, 10000)]

kg_CO2_per_MWh ==
    [coal |-> Num(870), gas |-> Num(464), solar |-> Rat(445, 10), oil |-> Num(652),
     wind_onshore |-> Num(14), wind_offshore |-> Num(17)]

\* The index of a DataFrame: its columns share it.
TableIndex(df) == IF DOMAIN df = {} THEN {} ELSE DOMAIN df[CHOOSE c \in DOMAIN df : TRUE]

\* DataFrame.empty: no column or no row.
TableEmpty(df) == DOMAIN df = {} \/ TableIndex(df) = {}

\* series * scalar, series / scalar
Scale(s, k) == [t \in DOMAIN s |-> FMul(s[t], k)]

ScaleDown(s, k) == [t \in DOMAIN s |-> FDiv(s[t], k)]

\* series + series and series / series align on the union of the indexes;
\* a timestamp one side lacks gives NaN.
SeriesAdd(a, b) ==
    [t \in DOMAIN a \cup DOMAIN b |->
        IF t \in DOMAIN a /\ t \in DOMAIN b THEN FAdd(a[t], b[t]) ELSE NaN]

SeriesDiv_zero_fill(a, b) ==
    [t \in DOMAIN a \cup DOMAIN b |->
        IF t \in DOMAIN a /\ t \in DOMAIN b
        THEN (IF b[t] = Num(0) THEN Num(0) ELSE FDiv(a[t], b[t]))
        ELSE NaN]

SeriesDiv(a, b) ==
    [t \in DOMAIN a \cup DOMAIN b |->
        IF t \in DOMAIN a /\ t \in DOMAIN b THEN FDiv(a[t], b[t]) ELSE NaN]

RECURSIVE RowSum(_, _, _)
RowSum(df, cols, t) ==
    IF cols = {} THEN Num(0)
    ELSE LET c == CHOOSE x \in cols : TRUE
             rest == RowSum(df, cols \ {c}, t)
         IN  IF df[c][t] = NaN THEN rest ELSE FAdd(df[c][t], rest)

\* DataFrame.sum(axis="columns"): every column the frame has, NaN skipped.
SumColumns(df) == [t \in TableIndex(df) |-> RowSum(df, DOMAIN df, t)]

\* df[name] = series: the frame with a column added (or replaced).
WithColumn(df, name, series) ==
    [c \in DOMAIN df \cup {name} |-> IF c = name THEN series ELSE df[c]]

grey_CO2_intensity_factor_no_oil ==
    FAdd(FMul(grey_energy_mix.coal, kg_CO2_per_MWh.coal),
         FMul(grey_energy_mix.gas, kg_CO2_per_MWh.gas))

grey_CO2_intensity_factor ==
    FAdd(FAdd(FMul(grey_energy_mix.coal, kg_CO2_per_MWh.coal),
              FMul(grey_energy_mix.gas, kg_CO2_per_MWh.gas)),
         FMul(grey_energy_mix.oil, kg_CO2_per_MWh.oil))

green_generation_with_CO2_in_place(green_generation) ==
    LET g1 == WithColumn(green_generation, "solar CO2",
                         ScaleDown(Scale(green_generation["Solar"], kg_CO2_per_MWh.solar),
                                   Num(1000)))
        g2 == WithColumn(g1, "Wind Onshore",
                         Scale(g1["Wind Onshore"], kg_CO2_per_MWh.wind_onshore))
        g3 == WithColumn(g2, "wind_onshore CO2", g2["Wind Onshore"])
    IN  WithColumn(g3, "wind_offshore CO2",
                   Scale(g3["Wind Offshore"], kg_CO2_per_MWh.wind_offshore))

\* calculate_CO2_content_in_kg adds three columns to the frame it is given:
\* the frame as the call leaves it.
green_generation_with_CO2(green_generation) ==
    LET g1 == WithColumn(green_generation, "solar CO2",
                         ScaleDown(Scale(green_generation["Solar"], kg_CO2_per_MWh.solar),
                                   Num(1000)))
        g2 == WithColumn(g1, "wind_onshore CO2",
                         Scale(g1["Wind Onshore"], kg_CO2_per_MWh.wind_onshore))
    IN  WithColumn(g2, "wind_offshore CO2",
                   Scale(g2["Wind Offshore"], kg_CO2_per_MWh.wind_offshore))

calculate_CO2_content_in_kg_fixed_grey(grey_generation, green_generation) ==
    LET grey_CO2_content == [t \in DOMAIN grey_generation |-> grey_CO2_intensity_factor]
        g == green_generation_with_CO2(green_generation)
    IN  SeriesAdd(SeriesAdd(SeriesAdd(grey_CO2_content, g["solar CO2"]),
                            g["wind_onshore CO2"]),
                  g["wind_offshore CO2"])

\* calculate_CO2_content_in_kg: the series it returns.
calculate_CO2_content_in_kg(grey_generation, green_generation) ==
    LET grey_CO2_content == Scale(grey_generation, grey_CO2_intensity_factor)
        g == green_generation_with_CO2(green_generation)
    IN  SeriesAdd(SeriesAdd(SeriesAdd(grey_CO2_content, g["solar CO2"]),
                            g["wind_onshore CO2"]),
                  g["wind_offshore CO2"])

\* Lines 135-147 of the generation import: the frame is summed before
\* calculate_CO2_content_in_kg adds its columns to it.
derive_late_sum(scheduled_generation, green_generation_df) ==
    LET co2_in_kg == calculate_CO2_content_in_kg(scheduled_generation, green_generation_df)
        df == green_generation_with_CO2(green_generation_df)
        all_green_generation == SumColumns(df)
        all_generation == SeriesAdd(scheduled_generation, all_green_generation)
    IN  [green_generation_df |-> df,
         forecasted_kg_CO2_per_MWh |-> SeriesDiv(co2_in_kg, all_generation)]

derive(scheduled_generation, green_generation_df) ==
    LET all_green_generation == SumColumns(green_generation_df)
        all_generation == SeriesAdd(scheduled_generation, all_green_generation)
        co2_in_kg == calculate_CO2_content_in_kg(scheduled_generation, green_generation_df)
    IN  [green_generation_df |-> green_generation_with_CO2(green_generation_df),
         forecasted_kg_CO2_per_MWh |-> SeriesDiv(co2_in_kg, all_generation)]

(***************************************************************************)
(* Sensor specifications and configuration defaults.                       *)
(***************************************************************************)
DEFAULT_COUNTRY_CODE == "NL"

DEFAULT_COUNTRY_TIMEZONE == "Europe/Amsterdam"

DEFAULT_DERIVED_DATA_SOURCE == "FlexMeasures ENTSO-E"

SensorSpec(name, unit, res, by_entsoe) ==
    [name |-> name, unit |-> unit, event_resolution |-> res, data_by_entsoe |-> by_entsoe]

generation_sensors ==
    << SensorSpec("Scheduled generation", "MW", Min15, TRUE),
       SensorSpec("Solar", "MW", Hour, TRUE),
       SensorSpec("Wind Onshore", "MW", Hour, TRUE),
       SensorSpec("Wind Offshore", "MW", Hour, TRUE),
       SensorSpec("CO2 intensity", "kg/MWh", Min15, FALSE) >>

pricing_sensors == << SensorSpec("Day-ahead prices", "EUR/MWh", Hour, TRUE) >>

(***************************************************************************)
(* State.                                                                  *)
(***************************************************************************)
VARIABLES
    r_pc,       \* resample_if_needed called on its own: position
    r_in,       \*   the input series
    r_target,   \*   the sensor's event resolution
    r_out,      \*   the call's outcome
    r_back,     \*   the outcome of resampling r_out back to r_in's resolution
    b_pc,       \* save_entsoe_series called on its own: position
    b_series,   \*   the series to save
    b_now,      \*   the now argument, NoneArg or Some(t)
    b_clock,    \*   server_now()
    b_bdf,      \*   the beliefs handed to the store
    runs,       \* import commands invoked so far, one after the other
    cmd,        \* the running import command: "generation" or "prices"
    specs,      \*   the sensor specifications it ensures
    host,       \*   the host it runs on: the server's timezone, its belief store
    session,    \*   the rows its database session has added and committed
    pc,         \*   its position
    opts,       \*   its command-line options
    config,     \*   the application's configuration
    clock,      \*   server_now()
    db,         \*   the sensor/asset registry
    loc,        \*   the command's local variables
    fetches,    \*   the upstream queries answered so far
    saved,      \*   the BeliefsDataFrames passed to save_to_db so far
    c_unique,   \* two commands ensuring their zone at once: asset names are unique
    c_db,       \*   the rows committed to the registry
    c_session,  \*   each command's session: the rows it added, not yet committed
    c_pc,       \*   each command's position in ensure_transmission_zone_asset
    c_loc       \*   each command's local variables

r_vars == <<r_pc, r_in, r_target, r_out, r_back>>

b_vars == <<b_pc, b_series, b_now, b_clock, b_bdf>>

i_vars == <<runs, cmd, specs, host, session, pc, opts, config, clock, db, loc, fetches, saved>>

c_vars == <<c_unique, c_db, c_session, c_pc, c_loc>>

vars == <<r_vars, b_vars, i_vars, c_vars>>

Pending == [raised |-> "pending", value |-> EmptySeries]

\* n timestamps from start, res apart; when irregular the last one is a
\* tick late.  vals gives the values by position.
MakeSeries(start, res, vals, irregular) ==
    LET n == Len(vals)
        ts == [k \in 1..n |->
                 start + (k - 1) * res + (IF irregular /\ k = n THEN 1 ELSE 0)]
    IN  [t \in {ts[k] : k \in 1..n} |-> Num(vals[CHOOSE k \in 1..n : ts[k] = t])]

\* The parts of the state a specification does not use stay as they are here.
ResampleIdle ==
    /\ r_pc = "idle"
    /\ r_in = EmptySeries
    /\ r_target = Min15
    /\ r_out = Pending
    /\ r_back = Pending

BeliefIdle ==
    /\ b_pc = "idle"
    /\ b_series = EmptySeries
    /\ b_now = NoneArg
    /\ b_clock = 0
    /\ b_bdf = BeliefsDataFrame(EmptySeries, "", "", EmptySeries)

\* current_app.config: the settings the plugin reads.  A token that is not
\* set reads as "", another setting that is not set as NoneArg.
Config(use_test_server, token, test_token, derived_data_source) ==
    [ENTSOE_USE_TEST_SERVER |-> use_test_server,
     ENTSOE_AUTH_TOKEN |-> token,
     ENTSOE_AUTH_TOKEN_TEST_SERVER |-> test_token,
     ENTSOE_COUNTRY_CODE |-> NoneArg,
     ENTSOE_COUNTRY_TIMEZONE |-> NoneArg,
     ENTSOE_DERIVED_DATA_SOURCE |-> derived_data_source]

EmptyDb == [sources |-> {}, asset_types |-> {}, assets |-> {}, sensors |-> {}]

\* save_to_db answers with one of these.
SaveOutcomes ==
    {"success", "success_but_nothing_new", "success_with_unchanged_beliefs_skipped"}

\* A host: the timezone datetime.today() is read in, and the outcomes its
\* belief store answers a save with (only "success" when it holds nothing yet
\* for the sensors and the window saved, only "success_but_nothing_new" when
\* it holds all of it).
Host(timezone, save_outcomes) == [timezone |-> timezone, save_outcomes |-> save_outcomes]

\* A database session that has added nothing.
NoSession == [pending |-> EmptyDb, committed |-> EmptyDb]

NoLocals ==
    [country_code |-> "", country_timezone |-> "",
     sensors |-> <<>>, entsoe_data_source |-> "", derived_data_source |-> "",
     from_time |-> 0, until_time |-> 0, entsoe_URL |-> "", now |-> 0,
     scheduled_generation |-> EmptySeries, green_generation_df |-> <<>>,
     forecasted_kg_CO2_per_MWh |-> EmptySeries, prices |-> EmptySeries, i |-> 0,
     status |-> "", logged |-> <<>>]

\* The commands that run at once.
Procs == {1, 2}

NoRows == [asset_types |-> {}, assets |-> {}]

RaceLocals(country_code) ==
    [country_code |-> country_code, transmission_zone_type |-> NoneArg,
     transmission_zone |-> NoneArg, raised |-> ""]

RaceIdle ==
    /\ c_unique = FALSE
    /\ c_db = NoRows
    /\ c_session = [p \in Procs |-> NoRows]
    /\ c_pc = [p \in Procs |-> "idle"]
    /\ c_loc = [p \in Procs |-> RaceLocals("")]

ImportIdle ==
    /\ runs = 0
    /\ cmd = "none"
    /\ specs = <<>>
    /\ host = Host(DEFAULT_COUNTRY_TIMEZONE, {"success"})
    /\ session = NoSession
    /\ pc = "idle"
    /\ opts = [dryrun |-> FALSE, from_date |-> NoneArg, to_date |-> NoneArg,
               country_code |-> NoneArg, country_timezone |-> NoneArg,
               sensor |-> NoneArg, source |-> NoneArg]
    /\ config = Config(FALSE, "", "", NoneArg)
    /\ clock = 0
    /\ db = EmptyDb
    /\ loc = NoLocals
    /\ fetches = <<>>
    /\ saved = <<>>

(***************************************************************************)
(* resample_if_needed on its own: the inputs.                              *)
(***************************************************************************)
Starts == {Day, Day + 1, Day + Hour, 2 * Day - Hour}

SourceResolutions == {2, Min15, Hour, 4 * Hour}

TargetResolutions == {2, Min15, Hour}

Values == {10, 20}

ValueSeqs == UNION {[1..n -> Values] : n \in 0..MaxLen}

InputSeries ==
    {MakeSeries(start, res, vals, irr) :
        start \in Starts, res \in SourceResolutions,
        vals \in ValueSeqs, irr \in BOOLEAN}

ResampleInit ==
    /\ r_pc = "start"
    /\ r_in \in InputSeries
    /\ r_target \in TargetResolutions
    /\ r_out = Pending
    /\ r_back = Pending
    /\ BeliefIdle
    /\ ImportIdle
    /\ RaceIdle

\* resample_if_needed(r_in, sensor) for a sensor of resolution r_target.
Normalize ==
    /\ r_pc = "start"
    /\ r_out' = resample_if_needed(r_in, r_target)
    /\ r_pc' = "normalized"
    /\ UNCHANGED <<r_in, r_target, r_back, b_vars, i_vars, c_vars>>

\* The returned series resampled again, to the input's own resolution.
NormalizeBack ==
    /\ r_pc = "normalized"
    /\ r_out.raised = ""
    /\ r_back' = resample_if_needed(r_out.value, infer_freq(DOMAIN r_in).delta)
    /\ r_pc' = "back"
    /\ UNCHANGED <<r_in, r_target, r_out, b_vars, i_vars, c_vars>>

ResampleNext == Normalize \/ NormalizeBack

SpecResample == ResampleInit /\ [][ResampleNext]_vars

(***************************************************************************)
(* save_entsoe_series on its own: the inputs.                              *)
(***************************************************************************)
BeliefStarts == {Day, Day + Hour, 2 * Day - Hour, 2 * Day}

BeliefResolutions == {Min15, Hour, 12 * Hour}

\* Instants around the 18:00 cutoffs of the days the events fall in.
Instants ==
    {Day - SixHours - 1, Day - SixHours, Day - SixHours + 1, Day + Hour,
     2 * Day - SixHours, 2 * Day - SixHours + 1, 4 * Day}

BeliefInit ==
    /\ b_pc = "start"
    /\ b_series \in {MakeSeries(start, res, [k \in 1..n |-> 10], FALSE) :
                        start \in BeliefStarts, res \in BeliefResolutions,
                        n \in 0..MaxLen}
    /\ b_now \in {NoneArg} \cup {Some(t) : t \in Instants}
    /\ b_clock \in Instants
    /\ b_bdf = BeliefsDataFrame(EmptySeries, "", "", EmptySeries)
    /\ ResampleIdle
    /\ ImportIdle
    /\ RaceIdle

\* save_entsoe_series up to the call of save_to_db.
Package ==
    /\ b_pc = "start"
    /\ b_bdf' = save_entsoe_series_bdf(b_series, "sensor", "source", b_now, b_clock)
    /\ b_pc' = "packaged"
    /\ UNCHANGED <<b_series, b_now, b_clock, r_vars, i_vars, c_vars>>

BeliefNext == Package

SpecBelief == BeliefInit /\ [][BeliefNext]_vars

(***************************************************************************)
(* The registry: ensure_transmission_zone_asset and ensure_sensors.        *)
(***************************************************************************)
ga_name(country_code) == <<country_code, "transmission zone">>

\* The primary key a newly added row gets.
NewId(rows) == IF rows = {} THEN 1 ELSE SetMax({r.id : r \in rows}) + 1

\* The type and the zone are looked up, added when the query finds none, and
\* the session is committed.
ensure_transmission_zone_asset(registry, country_code) ==
    LET transmission_zone == {a \in registry.assets : a.name = ga_name(country_code)}
    IN  [registry EXCEPT
            !.asset_types = @ \cup {"transmission zone"},
            !.assets = IF transmission_zone = {}
                       THEN @ \cup {[id |-> NewId(@), name |-> ga_name(country_code),
                                     generic_asset_type |-> "transmission zone"]}
                       ELSE @]

\* The asset ensure_transmission_zone_asset returns.
transmission_zone_asset(registry, country_code) ==
    CHOOSE a \in registry.assets : a.name = ga_name(country_code)

\* The query of ensure_sensors for one specification.
sensor_query(rows, spec, zone_id) ==
    {s \in rows : s.name = spec.name /\ s.unit = spec.unit /\ s.generic_asset = zone_id}

ensured_sensor_always_new(rows, spec, zone_id, timezone) ==
    [id |-> NewId(rows), name |-> spec.name, unit |-> spec.unit,
     generic_asset |-> zone_id, timezone |-> timezone,
     event_resolution |-> spec.event_resolution,
     data_by_entsoe |-> spec.data_by_entsoe]

ensured_sensor_respecified(rows, spec, zone_id, timezone) ==
    LET found == sensor_query(rows, spec, zone_id)
        sensor == [id |-> IF found = {} THEN NewId(rows) ELSE (CHOOSE s \in found : TRUE).id,
                   name |-> spec.name, unit |-> spec.unit,
                   generic_asset |-> zone_id, timezone |-> timezone,
                   event_resolution |-> spec.event_resolution,
                   data_by_entsoe |-> spec.data_by_entsoe]
    IN  sensor

\* ensure_sensors, loop body: the sensor the query finds is kept as stored,
\* the specification's timezone and resolution go to a new sensor only, and
\* data_by_entsoe is set either way.
ensured_sensor(rows, spec, zone_id, timezone) ==
    LET found == sensor_query(rows, spec, zone_id)
        sensor == IF found = {}
                  THEN [id |-> NewId(rows), name |-> spec.name, unit |-> spec.unit,
                        generic_asset |-> zone_id, timezone |-> timezone,
                        event_resolution |-> spec.event_resolution,
                        data_by_entsoe |-> spec.data_by_entsoe]
                  ELSE CHOOSE s \in found : TRUE
    IN  [sensor EXCEPT !.data_by_entsoe = spec.data_by_entsoe]

\* The sensor rows after the loop has handled specifications k, k+1, ...
RECURSIVE ensure_sensors_rows(_, _, _, _, _)
ensure_sensors_rows(rows, sensor_specifications, k, zone_id, timezone) ==
    IF k > Len(sensor_specifications) THEN rows
    ELSE LET sensor == ensured_sensor(rows, sensor_specifications[k], zone_id, timezone)
         IN  ensure_sensors_rows({s \in rows : s.id # sensor.id} \cup {sensor},
                                 sensor_specifications, k + 1, zone_id, timezone)

\* The registry as ensure_sensors leaves it.
ensure_sensors_db(registry, sensor_specifications, country_code, timezone) ==
    LET zoned == ensure_transmission_zone_asset(registry, country_code)
        zone == transmission_zone_asset(zoned, country_code)
    IN  [zoned EXCEPT
            !.sensors = ensure_sensors_rows(@, sensor_specifications, 1, zone.id, timezone)]

\* The dict ensure_sensors returns, in the order of the specifications.
ensure_sensors(registry, sensor_specifications, country_code, timezone) ==
    LET after == ensure_sensors_db(registry, sensor_specifications, country_code, timezone)
        zone == transmission_zone_asset(after, country_code)
    IN  [k \in 1..Len(sensor_specifications) |->
            CHOOSE s \in after.sensors :
                s \in sensor_query(after.sensors, sensor_specifications[k], zone.id)]

\* get_data_source: the registry with the named data source in it.
get_data_source(registry, data_source_name) ==
    [registry EXCEPT !.sources = @ \cup {data_source_name}]

\* The rows of registry after that registry before does not hold.
Added(after, before) ==
    [sources |-> after.sources \ before.sources,
     asset_types |-> after.asset_types \ before.asset_types,
     assets |-> after.assets \ before.assets,
     sensors |-> {s \in after.sensors : s.id \notin {b.id : b \in before.sensors}}]

\* The session after ensure_sensors: db.session.commit() at the end of
\* ensure_transmission_zone_asset commits what the session holds by then (the
\* data sources get_data_source added, the type, the zone); the sensors are
\* added after it and flushed, not committed.  before is the registry when
\* the command was invoked, registry the one with its data sources added.
ensure_sensors_session(before, registry, sensor_specifications, country_code, timezone) ==
    LET zoned == ensure_transmission_zone_asset(registry, country_code)
    IN  [committed |-> Added(zoned, before),
         pending |-> Added(ensure_sensors_db(registry, sensor_specifications,
                                             country_code, timezone), zoned)]

SensorNamed(sensors, name) == sensors[CHOOSE k \in 1..Len(sensors) : sensors[k].name = name]

(***************************************************************************)
(* Configuration, dates, and the checks of the import commands.            *)
(***************************************************************************)
\* current_app.config.get(key, default)
config_get(value, default) == IF value = NoneArg THEN default ELSE value[1]

ensure_country_code_and_timezone(country_code, country_timezone, cfg) ==
    [country_code |->
        IF country_code = NoneArg
        THEN config_get(cfg.ENTSOE_COUNTRY_CODE, DEFAULT_COUNTRY_CODE)
        ELSE country_code[1],
     country_timezone |->
        IF country_timezone = NoneArg
        THEN config_get(cfg.ENTSOE_COUNTRY_TIMEZONE, DEFAULT_COUNTRY_TIMEZONE)
        ELSE country_timezone[1]]

\* The names ensure_data_source and ensure_data_source_for_derived_data ask
\* get_data_source for.
entsoe_data_source_name == "ENTSO-E"

derived_data_source_name(cfg) ==
    config_get(cfg.ENTSOE_DERIVED_DATA_SOURCE, DEFAULT_DERIVED_DATA_SOURCE)

auth_token_production(cfg) == cfg.ENTSOE_AUTH_TOKEN

\* get_auth_token_from_config_and_set_server_url: the token read, "" if none.
auth_token(cfg) ==
    IF cfg.ENTSOE_USE_TEST_SERVER
    THEN cfg.ENTSOE_AUTH_TOKEN_TEST_SERVER
    ELSE cfg.ENTSOE_AUTH_TOKEN

server_url(cfg) ==
    IF cfg.ENTSOE_USE_TEST_SERVER
    THEN "https://iop-transparency.entsoe.eu/api"
    ELSE "https://web-api.tp.entsoe.eu/api"

\* The offset of a timezone from UTC, in the winter the model's days are in.
utc_offset(timezone) == IF timezone = "UTC" THEN 0 ELSE Hour

\* The model's clock shows Central European Time: an instant as the wall
\* clock of a timezone shows it, and back.
wall_clock(instant, timezone) == instant - Hour + utc_offset(timezone)

\* pd.Timestamp(naive, tzinfo=pytz.timezone(timezone)): the instant at which
\* the wall clock of timezone shows naive.
Timestamp(naive, timezone) == naive + Hour - utc_offset(timezone)

\* datetime.today(): the wall clock of the server's own timezone, naive.
datetime_today(instant, server_timezone) == wall_clock(instant, server_timezone)

\* date_range_to_time_range: to_date is inclusive, a calendar day is added.
date_range_to_time_range(from_date, to_date) ==
    [from_time |-> from_date, until_time |-> to_date + Day]

\* today is what datetime.today() returns; --from-date and --to-date are naive
\* midnights.  Every naive time is read as a time of country_timezone.
parse_from_and_to_dates_default_today_and_tomorrow(from_date, to_date, country_timezone, today) ==
    LET today_start == floor_D(today)
    IN  date_range_to_time_range(
            IF from_date = NoneArg THEN Timestamp(today_start, country_timezone)
            ELSE Timestamp(from_date[1], country_timezone),
            IF to_date = NoneArg THEN Timestamp(today_start, country_timezone) + Day
            ELSE Timestamp(to_date[1], country_timezone))

save_entsoe_series_returns_unless_nothing_new(status) ==
    status # "success_but_nothing_new"

\* save_entsoe_series, lines 259-263: no status of save_to_db makes it raise.
save_entsoe_series_returns(status) == TRUE

\* The messages it logs for a status.
save_entsoe_series_logged(status) ==
    IF status = "success_but_nothing_new"
    THEN <<"Done. These beliefs had already been saved before.">>
    ELSE IF status = "success_with_unchanged_beliefs_skipped"
    THEN <<"Done. Some beliefs had already been saved before.">>
    ELSE <<>>

abort_if_data_empty_never(empty) == FALSE

\* abort_if_data_empty: TRUE when it raises click.Abort.
abort_if_data_empty(empty) == empty

save_always(dryrun) == TRUE

\* "if not dryrun:" guards every call of save_entsoe_series.
save_wanted(dryrun) == ~dryrun

entsoe_source_always(data_by_entsoe, entsoe_data_source, derived_data_source) ==
    entsoe_data_source

\* Lines 169-171: the source a sensor's beliefs are attributed to.
entsoe_source_for(data_by_entsoe, entsoe_data_source, derived_data_source) ==
    IF data_by_entsoe THEN entsoe_data_source ELSE derived_data_source

\* get_series_for_sensor of the generation import.
get_series_for_sensor(name, l) ==
    IF name = "Scheduled generation" THEN Returned(l.scheduled_generation)
    ELSE IF name = "Solar" THEN Returned(l.green_generation_df["Solar"])
    ELSE IF name = "Wind Onshore" THEN Returned(l.green_generation_df["Wind Onshore"])
    ELSE IF name = "Wind Offshore" THEN Returned(l.green_generation_df["Wind Offshore"])
    ELSE IF name = "CO2 intensity" THEN Returned(l.forecasted_kg_CO2_per_MWh)
    ELSE Raised("Abort")

(***************************************************************************)
(* The import commands: inputs.                                            *)
(***************************************************************************)
MaxFetch == 3

\* Today's local midnight.
Today == Day

MaxRuns == 2

Configs ==
    { Config(FALSE, "token", "", NoneArg),
      Config(FALSE, "", "test token", NoneArg),
      Config(TRUE, "", "test token", NoneArg),
      Config(TRUE, "token", "", NoneArg),
      Config(FALSE, "token", "", Some("CO2 estimates")),
      Config(FALSE, "token", "", Some("ENTSO-E")) }

\* The registry with the two default data sources in it.
SourcedDb ==
    get_data_source(get_data_source(EmptyDb, entsoe_data_source_name),
                    DEFAULT_DERIVED_DATA_SOURCE)

\* A registry that earlier runs of both commands have filled.
PopulatedDb ==
    ensure_sensors_db(
        ensure_sensors_db(SourcedDb, generation_sensors,
                          DEFAULT_COUNTRY_CODE, DEFAULT_COUNTRY_TIMEZONE),
        pricing_sensors, DEFAULT_COUNTRY_CODE, DEFAULT_COUNTRY_TIMEZONE)

\* A registry that a generation import for another country has filled.
BelgianDb == ensure_sensors_db(SourcedDb, generation_sensors, "BE", "Europe/Brussels")

CustomSensor ==
    [id |-> 0, name |-> "Custom prices", unit |-> "EUR/MWh", generic_asset |-> 0,
     timezone |-> DEFAULT_COUNTRY_TIMEZONE, event_resolution |-> Hour,
     data_by_entsoe |-> FALSE]

Options(command) ==
    [dryrun : BOOLEAN,
     from_date : {NoneArg, Some(Today + Day)},
     to_date : {NoneArg, Some(Today + 2 * Day)},
     country_code : {NoneArg},
     country_timezone : {NoneArg},
     sensor : IF command = "prices" THEN {NoneArg, Some(CustomSensor)} ELSE {NoneArg},
     source : IF command = "prices" THEN {NoneArg, Some("Custom source")} ELSE {NoneArg}]

\* The options of a command in a sequence of runs.
RunOptions(command) ==
    [dryrun : BOOLEAN,
     from_date : {NoneArg},
     to_date : {NoneArg},
     country_code : {NoneArg},
     country_timezone : {NoneArg, Some("Europe/Brussels")},
     sensor : {NoneArg},
     source : {NoneArg}]

\* The tuple generation_sensors with a sensor get_series_for_sensor has no
\* series for, added last or first.
unmapped_sensor == SensorSpec("Nuclear", "MW", Hour, TRUE)

generation_sensors_with_unmapped_last == Append(generation_sensors, unmapped_sensor)

generation_sensors_with_unmapped_first == <<unmapped_sensor>> \o generation_sensors

\* The tuple generation_sensors after a revision of resolutions and flags.
revised_generation_sensors ==
    << SensorSpec("Scheduled generation", "MW", Hour, TRUE),
       SensorSpec("Solar", "MW", Hour, TRUE),
       SensorSpec("Wind Onshore", "MW", Hour, TRUE),
       SensorSpec("Wind Offshore", "MW", Hour, TRUE),
       SensorSpec("CO2 intensity", "kg/MWh", Hour, TRUE) >>

\* The sensor specifications a command may be deployed with.
SensorSpecifications(command) ==
    IF command = "generation"
    THEN {generation_sensors, generation_sensors_with_unmapped_last,
          generation_sensors_with_unmapped_first}
    ELSE {pricing_sensors}

RunSensorSpecifications(command) ==
    IF command = "generation"
    THEN {generation_sensors, revised_generation_sensors}
    ELSE {pricing_sensors}

\* The values by position of an upstream answer: a pattern, repeated.
Repeated(pattern, n) == [k \in 1..n |-> pattern[((k - 1) % Len(pattern)) + 1]]

SeriesPatterns == {<<0, 0>>, <<100, 200>>, <<0, 100>>}

FetchedResolutions == {1, Min15, Hour}

\* What a query for a series may answer for a window starting at from_time.
SeriesAnswers(from_time) ==
    {EmptySeries} \cup
    {MakeSeries(from_time, res, Repeated(p, n), FALSE) :
        res \in FetchedResolutions, n \in 2..MaxFetch, p \in SeriesPatterns}

Row(solar, onshore, offshore) ==
    [c \in Columns |-> IF c = "Solar" THEN solar
                       ELSE IF c = "Wind Onshore" THEN onshore ELSE offshore]

RowPatterns == {<<Row(0, 0, 0)>>, <<Row(50, 30, 20), Row(0, 60, 40)>>}

MakeTable(start, res, rows) ==
    [c \in Columns |-> MakeSeries(start, res, [k \in 1..Len(rows) |-> rows[k][c]], FALSE)]

\* What the query for the wind and solar forecast may answer.
TableAnswers(from_time) ==
    {MakeTable(from_time, res, Repeated(p, n)) :
        res \in {Min15, Hour}, n \in {0, MaxFetch}, p \in RowPatterns}

ImportInit ==
    /\ runs = 1
    /\ cmd \in {"generation", "prices"}
    /\ specs \in SensorSpecifications(cmd)
    /\ host = Host(DEFAULT_COUNTRY_TIMEZONE, {"success"})
    /\ session = NoSession
    /\ pc = "start"
    /\ opts \in Options(cmd)
    /\ config \in Configs
    /\ clock \in {Today + 15 * Hour, Today + 20 * Hour}
    /\ db \in {EmptyDb, PopulatedDb}
    /\ specs \notin {generation_sensors, pricing_sensors} =>
         /\ opts.from_date = NoneArg /\ opts.to_date = NoneArg
         /\ config = Config(FALSE, "token", "", NoneArg)
         /\ clock = Today + 15 * Hour
    /\ loc = NoLocals
    /\ fetches = <<>>
    /\ saved = <<>>
    /\ ResampleIdle
    /\ BeliefIdle
    /\ RaceIdle

(***************************************************************************)
(* import_day_ahead_generation, statement by statement.                    *)
(***************************************************************************)
\* Lines 98-107: country and timezone, data sources, sensors, dates.
GenSetUp ==
    /\ cmd = "generation" /\ pc = "start"
    /\ LET country == ensure_country_code_and_timezone(
                          opts.country_code, opts.country_timezone, config)
           sourced == get_data_source(get_data_source(db, entsoe_data_source_name),
                                      derived_data_source_name(config))
           window == parse_from_and_to_dates_default_today_and_tomorrow(
                         opts.from_date, opts.to_date, country.country_timezone,
                         datetime_today(clock, host.timezone))
       IN  /\ loc' = [loc EXCEPT
                        !.country_code = country.country_code,
                        !.country_timezone = country.country_timezone,
                        !.entsoe_data_source = entsoe_data_source_name,
                        !.derived_data_source = derived_data_source_name(config),
                        !.sensors = ensure_sensors(sourced, specs, country.country_code,
                                                   country.country_timezone),
                        !.from_time = window.from_time,
                        !.until_time = window.until_time]
           /\ db' = ensure_sensors_db(sourced, specs, country.country_code,
                                      country.country_timezone)
           /\ session' = ensure_sensors_session(db, sourced, specs, country.country_code,
                                                country.country_timezone)
    /\ pc' = "create_client"
    /\ UNCHANGED <<runs, cmd, specs, host, opts, config, clock, fetches, saved, r_vars, b_vars, c_vars>>

\* create_entsoe_client and start_import_log: aborts without a token, else
\* now is read from the server's clock.
StartImport(next) ==
    /\ pc = "create_client"
    /\ IF auth_token(config) = ""
       THEN /\ pc' = "aborted"
            /\ loc' = [loc EXCEPT !.entsoe_URL = server_url(config)]
       ELSE /\ pc' = next
            /\ loc' = [loc EXCEPT !.entsoe_URL = server_url(config), !.now = clock]
    /\ UNCHANGED <<runs, cmd, specs, host, session, opts, config, clock, db, fetches, saved, r_vars, b_vars, c_vars>>

GenStartImport == cmd = "generation" /\ StartImport("fetch_scheduled")

\* client.query_generation_forecast
GenFetchScheduled ==
    /\ cmd = "generation" /\ pc = "fetch_scheduled"
    /\ \E answer \in SeriesAnswers(loc.from_time) :
         /\ loc' = [loc EXCEPT !.scheduled_generation = answer]
         /\ fetches' = Append(fetches, [query |-> "generation_forecast",
                                        empty |-> IsEmpty(answer)])
    /\ pc' = "check_scheduled"
    /\ UNCHANGED <<runs, cmd, specs, host, session, opts, config, clock, db, saved, r_vars, b_vars, c_vars>>

GenCheckScheduled ==
    /\ cmd = "generation" /\ pc = "check_scheduled"
    /\ pc' = IF abort_if_data_empty(IsEmpty(loc.scheduled_generation))
             THEN "aborted" ELSE "resample"
    /\ UNCHANGED <<runs, cmd, specs, host, session, opts, config, clock, db, loc, fetches, saved, r_vars, b_vars, c_vars>>

GenResample_retry ==
    /\ cmd = "generation" /\ pc = "resample"
    /\ LET r == resample_if_needed(
                    loc.scheduled_generation,
                    SensorNamed(loc.sensors, "Scheduled generation").event_resolution)
       IN  IF r.raised # ""
           THEN pc' = "fetch_scheduled" /\ loc' = loc
           ELSE pc' = "fetch_green" /\ loc' = [loc EXCEPT !.scheduled_generation = r.value]
    /\ UNCHANGED <<runs, cmd, specs, host, session, opts, config, clock, db, fetches, saved, r_vars, b_vars, c_vars>>

\* Lines 123-126: the scheduled series is normalised before the renewable
\* table is fetched.
GenResample ==
    /\ cmd = "generation" /\ pc = "resample"
    /\ LET r == resample_if_needed(
                    loc.scheduled_generation,
                    SensorNamed(loc.sensors, "Scheduled generation").event_resolution)
       IN  IF r.raised # ""
           THEN pc' = "error" /\ loc' = loc
           ELSE pc' = "fetch_green" /\ loc' = [loc EXCEPT !.scheduled_generation = r.value]
    /\ UNCHANGED <<runs, cmd, specs, host, session, opts, config, clock, db, fetches, saved, r_vars, b_vars, c_vars>>

\* client.query_wind_and_solar_forecast
GenFetchGreen ==
    /\ cmd = "generation" /\ pc = "fetch_green"
    /\ \E answer \in TableAnswers(loc.from_time) :
         /\ loc' = [loc EXCEPT !.green_generation_df = answer]
         /\ fetches' = Append(fetches, [query |-> "wind_and_solar_forecast",
                                        empty |-> TableEmpty(answer)])
    /\ pc' = "check_green"
    /\ UNCHANGED <<runs, cmd, specs, host, session, opts, config, clock, db, saved, r_vars, b_vars, c_vars>>

GenCheckGreen ==
    /\ cmd = "generation" /\ pc = "check_green"
    /\ pc' = IF abort_if_data_empty(TableEmpty(loc.green_generation_df))
             THEN "aborted" ELSE "derive"
    /\ UNCHANGED <<runs, cmd, specs, host, session, opts, config, clock, db, loc, fetches, saved, r_vars, b_vars, c_vars>>

\* Lines 135-164: the CO2 intensity, then the dry-run test.
GenDerive ==
    /\ cmd = "generation" /\ pc = "derive"
    /\ LET d == derive(loc.scheduled_generation, loc.green_generation_df)
       IN  loc' = [loc EXCEPT
                     !.green_generation_df = d.green_generation_df,
                     !.forecasted_kg_CO2_per_MWh = d.forecasted_kg_CO2_per_MWh,
                     !.i = 1]
    /\ pc' = IF save_wanted(opts.dryrun) THEN "save" ELSE "done"
    /\ UNCHANGED <<runs, cmd, specs, host, session, opts, config, clock, db, fetches, saved, r_vars, b_vars, c_vars>>

\* One turn of the loop over sensors.values(): the series is looked up and
\* save_entsoe_series packages it, hands it to save_to_db, logs by the status
\* the store answers with and returns.
GenSave ==
    /\ cmd = "generation" /\ pc = "save"
    /\ LET sensor == loc.sensors[loc.i]
           series == get_series_for_sensor(sensor.name, loc)
           entsoe_source == entsoe_source_for(sensor.data_by_entsoe,
                                              loc.entsoe_data_source,
                                              loc.derived_data_source)
       IN  IF series.raised # ""
           THEN pc' = "aborted" /\ saved' = saved /\ loc' = loc
           ELSE \E status \in host.save_outcomes :
                /\ saved' = Append(saved,
                        save_entsoe_series_bdf(series.value, sensor.name, entsoe_source,
                                               Some(loc.now), clock))
                /\ IF save_entsoe_series_returns(status)
                   THEN /\ loc' = [loc EXCEPT
                                     !.i = @ + 1,
                                     !.status = status,
                                     !.logged = save_entsoe_series_logged(status)]
                        /\ pc' = IF loc.i = Len(loc.sensors) THEN "done" ELSE "save"
                   ELSE /\ loc' = [loc EXCEPT !.status = status, !.logged = <<>>]
                        /\ pc' = "error"
    /\ UNCHANGED <<runs, cmd, specs, host, session, opts, config, clock, db, fetches, r_vars, b_vars, c_vars>>

(***************************************************************************)
(* import_day_ahead_prices, statement by statement.                        *)
(***************************************************************************)
\* Lines 94-114: country and timezone, data source, sensor, dates.
PriceSetUp ==
    /\ cmd = "prices" /\ pc = "start"
    /\ LET country == ensure_country_code_and_timezone(
                          opts.country_code, opts.country_timezone, config)
           sourced == IF opts.source = NoneArg
                      THEN get_data_source(db, entsoe_data_source_name) ELSE db
           window == parse_from_and_to_dates_default_today_and_tomorrow(
                         opts.from_date, opts.to_date, country.country_timezone,
                         datetime_today(clock, host.timezone))
           pricing_sensor ==
               IF opts.sensor = NoneArg
               THEN SensorNamed(ensure_sensors(sourced, specs, country.country_code,
                                               country.country_timezone),
                                "Day-ahead prices")
               ELSE opts.sensor[1]
       IN  /\ loc' = [loc EXCEPT
                        !.country_code = country.country_code,
                        !.country_timezone = country.country_timezone,
                        !.entsoe_data_source =
                            IF opts.source = NoneArg THEN entsoe_data_source_name
                            ELSE opts.source[1],
                        !.sensors = <<pricing_sensor>>,
                        !.from_time = window.from_time,
                        !.until_time = window.until_time]
           /\ db' = IF opts.sensor = NoneArg
                    THEN ensure_sensors_db(sourced, specs, country.country_code,
                                           country.country_timezone)
                    ELSE sourced
           /\ session' = IF opts.sensor = NoneArg
                         THEN ensure_sensors_session(db, sourced, specs,
                                                     country.country_code,
                                                     country.country_timezone)
                         ELSE [committed |-> EmptyDb, pending |-> Added(sourced, db)]
    /\ pc' = "create_client"
    /\ UNCHANGED <<runs, cmd, specs, host, opts, config, clock, fetches, saved, r_vars, b_vars, c_vars>>

PriceStartImport == cmd = "prices" /\ StartImport("fetch_prices")

\* client.query_day_ahead_prices
PriceFetch ==
    /\ cmd = "prices" /\ pc = "fetch_prices"
    /\ \E answer \in SeriesAnswers(loc.from_time) :
         /\ loc' = [loc EXCEPT !.prices = answer]
         /\ fetches' = Append(fetches, [query |-> "day_ahead_prices",
                                        empty |-> IsEmpty(answer)])
    /\ pc' = "check_prices"
    /\ UNCHANGED <<runs, cmd, specs, host, session, opts, config, clock, db, saved, r_vars, b_vars, c_vars>>

PriceCheck ==
    /\ cmd = "prices" /\ pc = "check_prices"
    /\ pc' = IF abort_if_data_empty(IsEmpty(loc.prices)) THEN "aborted"
             ELSE IF save_wanted(opts.dryrun) THEN "save_prices" ELSE "done"
    /\ UNCHANGED <<runs, cmd, specs, host, session, opts, config, clock, db, loc, fetches, saved, r_vars, b_vars, c_vars>>

PriceSave ==
    /\ cmd = "prices" /\ pc = "save_prices"
    /\ saved' = Append(saved,
            save_entsoe_series_bdf(loc.prices, loc.sensors[1].name,
                                   loc.entsoe_data_source, Some(loc.now), clock))
    /\ \E status \in host.save_outcomes :
         IF save_entsoe_series_returns(status)
         THEN /\ loc' = [loc EXCEPT !.status = status,
                                    !.logged = save_entsoe_series_logged(status)]
              /\ pc' = "done"
         ELSE /\ loc' = [loc EXCEPT !.status = status, !.logged = <<>>]
              /\ pc' = "error"
    /\ UNCHANGED <<runs, cmd, specs, host, session, opts, config, clock, db, fetches, r_vars, b_vars, c_vars>>

Next ==
    \/ GenSetUp \/ GenStartImport \/ GenFetchScheduled \/ GenCheckScheduled
    \/ GenResample \/ GenFetchGreen \/ GenCheckGreen \/ GenDerive \/ GenSave
    \/ PriceSetUp \/ PriceStartImport \/ PriceFetch \/ PriceCheck \/ PriceSave

Init == ImportInit

Spec == Init /\ [][Next]_vars

(***************************************************************************)
(* Import commands invoked one after the other on the same registry.       *)
(***************************************************************************)
RunsInit ==
    /\ runs = 1
    /\ cmd \in {"generation", "prices"}
    /\ specs \in RunSensorSpecifications(cmd)
    /\ host = Host(DEFAULT_COUNTRY_TIMEZONE, {"success"})
    /\ session = NoSession
    /\ pc = "start"
    /\ opts \in RunOptions(cmd)
    /\ config = Config(FALSE, "token", "", NoneArg)
    /\ clock = Today + 15 * Hour
    /\ db \in {EmptyDb, BelgianDb}
    /\ loc = NoLocals
    /\ fetches = <<>>
    /\ saved = <<>>
    /\ ResampleIdle
    /\ BeliefIdle
    /\ RaceIdle

\* A command has ended, the next one is invoked: a new process, with the
\* registry as the earlier commands left it.
NextRun ==
    /\ pc \in {"done", "aborted", "error"}
    /\ runs < MaxRuns
    /\ runs' = runs + 1
    /\ \E command \in {"generation", "prices"} :
         /\ cmd' = command
         /\ specs' \in RunSensorSpecifications(command)
         /\ opts' \in RunOptions(command)
    /\ pc' = "start"
    /\ loc' = NoLocals
    /\ fetches' = <<>>
    /\ saved' = <<>>
    /\ session' = NoSession
    /\ UNCHANGED <<host, config, clock, db, r_vars, b_vars, c_vars>>

RunsNext == Next \/ NextRun

SpecRuns == RunsInit /\ [][RunsNext]_vars

(***************************************************************************)
(* An import command on a host of its own: the server keeps another        *)
(* timezone than the zone, its clock runs on while the command does, and   *)
(* its belief store holds beliefs of earlier imports.                      *)
(***************************************************************************)
MaxTicks == 1

Hosts ==
    {Host(timezone, save_outcomes) :
        timezone \in {DEFAULT_COUNTRY_TIMEZONE, "UTC"},
        save_outcomes \in {SaveOutcomes, {"success_but_nothing_new"}}}

HostInit ==
    /\ runs = 1
    /\ cmd \in {"generation", "prices"}
    /\ specs = IF cmd = "generation" THEN generation_sensors ELSE pricing_sensors
    /\ host \in Hosts
    /\ session = NoSession
    /\ pc = "start"
    /\ opts \in Options(cmd)
    /\ opts.sensor = NoneArg /\ opts.source = NoneArg
    /\ config = Config(FALSE, "token", "", NoneArg)
    /\ clock \in {Today + 6, Today + 15 * Hour}
    /\ db = EmptyDb
    /\ loc = NoLocals
    /\ fetches = <<>>
    /\ saved = <<>>
    /\ ResampleIdle
    /\ BeliefIdle
    /\ RaceIdle

\* The server's clock moves on an hour while the command is busy with the
\* upstream or the store, at most MaxTicks hours past the instant
\* start_import_log read.
Tick ==
    /\ pc \in {"fetch_scheduled", "check_scheduled", "resample", "fetch_green",
               "check_green", "derive", "save", "fetch_prices", "check_prices",
               "save_prices"}
    /\ clock < loc.now + MaxTicks * Hour
    /\ clock' = clock + Hour
    /\ UNCHANGED <<runs, cmd, specs, host, session, pc, opts, config, db, loc, fetches,
                   saved, r_vars, b_vars, c_vars>>

HostNext == Next \/ Tick

SpecHost == HostInit /\ [][HostNext]_vars

(***************************************************************************)
(* Two import commands for a zone at once: ensure_transmission_zone_asset, *)
(* query by query, each command in a database session of its own.          *)
(***************************************************************************)
\* The rows a command's query sees: the committed ones and those its own
\* session holds (the session flushes before it queries).
Visible(p) ==
    [asset_types |-> c_db.asset_types \cup c_session[p].asset_types,
     assets |-> c_db.assets \cup c_session[p].assets]

\* Every row there is, committed or not: primary keys come from a sequence
\* that all sessions share.
AllRows(field) == c_db[field] \cup UNION {c_session[p][field] : p \in Procs}

\* Query.one_or_none()
one_or_none(rows) ==
    IF rows = {} THEN [raised |-> "", value |-> NoneArg]
    ELSE IF Cardinality(rows) = 1
         THEN [raised |-> "", value |-> Some(CHOOSE r \in rows : TRUE)]
         ELSE [raised |-> "MultipleResultsFound", value |-> NoneArg]

\* A registry in which an earlier import has made the zone of country_code.
ZonedRows(country_code) ==
    [asset_types |-> {[id |-> 1, name |-> "transmission zone"]},
     assets |-> {[id |-> 1, name |-> ga_name(country_code), generic_asset_type |-> 1]}]

RaceInit ==
    /\ c_unique \in BOOLEAN
    /\ c_db \in {NoRows, ZonedRows(DEFAULT_COUNTRY_CODE)}
    /\ c_session = [p \in Procs |-> NoRows]
    /\ c_pc = [p \in Procs |-> "query_type"]
    /\ c_loc \in {[p \in Procs |-> RaceLocals(code[p])] :
                      code \in [Procs -> {DEFAULT_COUNTRY_CODE, "BE"}]}
    /\ ResampleIdle
    /\ BeliefIdle
    /\ ImportIdle

\* Lines 46-48: the query for the type.
RaceQueryType(p) ==
    /\ c_pc[p] = "query_type"
    /\ LET found == one_or_none({t \in Visible(p).asset_types :
                                    t.name = "transmission zone"})
       IN  /\ c_loc' = [c_loc EXCEPT ![p].transmission_zone_type = found.value,
                                     ![p].raised = found.raised]
           /\ c_pc' = [c_pc EXCEPT ![p] = IF found.raised # "" THEN "error"
                                          ELSE "if_type"]
    /\ UNCHANGED <<c_unique, c_db, c_session, r_vars, b_vars, i_vars>>

\* Lines 49-55: the type is added when the query found none.
RaceAddType(p) ==
    /\ c_pc[p] = "if_type"
    /\ IF c_loc[p].transmission_zone_type = NoneArg
       THEN LET type == [id |-> NewId(AllRows("asset_types")),
                         name |-> "transmission zone"]
            IN  /\ c_session' = [c_session EXCEPT ![p].asset_types = @ \cup {type}]
                /\ c_loc' = [c_loc EXCEPT ![p].transmission_zone_type = Some(type)]
       ELSE UNCHANGED <<c_session, c_loc>>
    /\ c_pc' = [c_pc EXCEPT ![p] = "query_zone"]
    /\ UNCHANGED <<c_unique, c_db, r_vars, b_vars, i_vars>>

\* Lines 56-57: the query for the zone.
RaceQueryZone(p) ==
    /\ c_pc[p] = "query_zone"
    /\ LET found == one_or_none({a \in Visible(p).assets :
                                    a.name = ga_name(c_loc[p].country_code)})
       IN  /\ c_loc' = [c_loc EXCEPT ![p].transmission_zone = found.value,
                                     ![p].raised = found.raised]
           /\ c_pc' = [c_pc EXCEPT ![p] = IF found.raised # "" THEN "error"
                                          ELSE "if_zone"]
    /\ UNCHANGED <<c_unique, c_db, c_session, r_vars, b_vars, i_vars>>

RaceAddZone_whatever_the_query_found(p) ==
    /\ c_pc[p] = "if_zone"
    /\ LET zone == [id |-> NewId(AllRows("assets")),
                    name |-> ga_name(c_loc[p].country_code),
                    generic_asset_type |-> c_loc[p].transmission_zone_type[1].id]
       IN  /\ c_session' = [c_session EXCEPT ![p].assets = @ \cup {zone}]
           /\ c_loc' = [c_loc EXCEPT ![p].transmission_zone = Some(zone)]
    /\ c_pc' = [c_pc EXCEPT ![p] = "commit"]
    /\ UNCHANGED <<c_unique, c_db, r_vars, b_vars, i_vars>>

\* Lines 58-65: the zone is added when the query found none.
RaceAddZone(p) ==
    /\ c_pc[p] = "if_zone"
    /\ IF c_loc[p].transmission_zone = NoneArg
       THEN LET zone == [id |-> NewId(AllRows("assets")),
                         name |-> ga_name(c_loc[p].country_code),
                         generic_asset_type |-> c_loc[p].transmission_zone_type[1].id]
            IN  /\ c_session' = [c_session EXCEPT ![p].assets = @ \cup {zone}]
                /\ c_loc' = [c_loc EXCEPT ![p].transmission_zone = Some(zone)]
       ELSE UNCHANGED <<c_session, c_loc>>
    /\ c_pc' = [c_pc EXCEPT ![p] = "commit"]
    /\ UNCHANGED <<c_unique, c_db, r_vars, b_vars, i_vars>>

\* Line 66: db.session.commit().  Where asset names are unique the commit
\* of a zone whose name is committed already fails and the session's rows
\* are lost; elsewhere the rows are committed as they are.
RaceCommit(p) ==
    /\ c_pc[p] = "commit"
    /\ IF c_unique /\ \E a \in c_session[p].assets : \E z \in c_db.assets : z.name = a.name
       THEN /\ c_db' = c_db
            /\ c_loc' = [c_loc EXCEPT ![p].raised = "IntegrityError"]
            /\ c_pc' = [c_pc EXCEPT ![p] = "error"]
       ELSE /\ c_db' = [asset_types |-> c_db.asset_types \cup c_session[p].asset_types,
                        assets |-> c_db.assets \cup c_session[p].assets]
            /\ c_loc' = c_loc
            /\ c_pc' = [c_pc EXCEPT ![p] = "done"]
    /\ c_session' = [c_session EXCEPT ![p] = NoRows]
    /\ UNCHANGED <<c_unique, r_vars, b_vars, i_vars>>

RaceNext ==
    \E p \in Procs :
        \/ RaceQueryType(p)
        \/ RaceAddType(p)
        \/ RaceQueryZone(p)
        \/ RaceAddZone(p)
        \/ RaceCommit(p)

SpecRace == RaceInit /\ [][RaceNext]_vars

(***************************************************************************)
(* Properties of resample_if_needed.                                       *)
(***************************************************************************)
\* The spacings between neighbouring timestamps of an index.
Gaps(idx) ==
    {b - a : <<a, b>> \in {p \in idx \X idx :
                             p[1] < p[2] /\ ~\E m \in idx : p[1] < m /\ m < p[2]}}

\* s has at least three timestamps, all res apart.
HasResolution(s, res) == Cardinality(DOMAIN s) >= 3 /\ Gaps(DOMAIN s) = {res}

First(s) == SetMin(DOMAIN s)

Last(s) == SetMax(DOMAIN s)

\* C4: a series whose inferred uniform resolution equals the sensor's event
\* resolution is returned unchanged: same timestamps, same values.
C4_IdentityAtTargetResolution ==
    (r_pc # "start" /\ HasResolution(r_in, r_target)) => r_out = Returned(r_in)

C4_Witness ==
    /\ r_pc # "start"
    /\ HasResolution(r_in, r_target)
    /\ First(r_in) % r_target # 0
    /\ r_out.raised = ""

\* The index is every step of width target in [first, last + res), and the
\* value at a step is the latest source value at or before it.
ForwardFilled(s, res, target, out) ==
    /\ DOMAIN out = {t \in First(s)..(Last(s) + res - 1) : (t - First(s)) % target = 0}
    /\ \A t \in DOMAIN out : out[t] = s[SetMax({u \in DOMAIN s : u <= t})]

\* Every source value appears res/target times in a row.
RepeatedEach(s, res, target, out) ==
    \A u \in DOMAIN s :
        LET steps == {t \in DOMAIN out : u <= t /\ t < u + res}
        IN  /\ Cardinality(steps) * target = res
            /\ \A t \in steps : out[t] = s[u]

\* C5 as stated: whenever the inferred source resolution is coarser than the
\* sensor's, the result is the forward fill of the source on the target grid.
C5_ForwardFillWheneverCoarser ==
    \A res \in SourceResolutions :
        (r_pc # "start" /\ HasResolution(r_in, res) /\ res > r_target)
            => (r_out.raised = "" /\ ForwardFilled(r_in, res, r_target, r_out.value))

\* C5, amended: when the inferred source resolution is coarser than the
\* sensor's and a whole multiple of it, the result is the forward fill of the
\* source on the target grid over [first, last + source resolution), and each
\* source value is repeated source resolution / target resolution times.
C5_ForwardFillWhenMultiple ==
    \A res \in SourceResolutions :
        (r_pc # "start" /\ HasResolution(r_in, res) /\ res > r_target
                        /\ res % r_target = 0)
            => /\ r_out.raised = ""
               /\ ForwardFilled(r_in, res, r_target, r_out.value)
               /\ RepeatedEach(r_in, res, r_target, r_out.value)

C5_Witness ==
    /\ r_pc # "start"
    /\ HasResolution(r_in, Hour)
    /\ r_target = Min15
    /\ \E t \in DOMAIN r_in : r_in[t] # r_in[First(r_in)]
    /\ Cardinality(DOMAIN r_out.value) = 4 * Cardinality(DOMAIN r_in)

\* The 4-hour series of scenario B and what the scenario expects of it.
FourHourly(vals) == MakeSeries(Day, 4 * Hour, vals, FALSE)

HourlyRepeated(vals) ==
    [t \in {Day + k * Hour : k \in 0..(4 * Len(vals) - 1)} |->
        Num(vals[((t - Day) \div (4 * Hour)) + 1])]

\* C6 as stated: the two-point 4-hour series [10, 20] normalised to a 1-hour
\* sensor yields the eight hourly values [10,10,10,10,20,20,20,20].
C6_TwoPointsUpsampled ==
    (r_pc # "start" /\ r_in = FourHourly(<<10, 20>>) /\ r_target = Hour)
        => r_out = Returned(HourlyRepeated(<<10, 20>>))

\* C6, amended: a 4-hour series of three points [10, 20, v] normalised to a
\* 1-hour sensor yields the twelve hourly values [10 x4, 20 x4, v x4]; the
\* two-point series [10, 20] raises ValueError, since no frequency is inferred
\* from fewer than three timestamps.
C6_ThreePointsUpsampled ==
    (r_pc # "start" /\ r_target = Hour)
        => /\ r_in = FourHourly(<<10, 20>>) => r_out = Raised(ValueError)
           /\ \A v \in Values :
                r_in = FourHourly(<<10, 20, v>>)
                    => r_out = Returned(HourlyRepeated(<<10, 20, v>>))

C6_Witness ==
    /\ r_pc # "start"
    /\ r_target = Hour
    /\ r_in = FourHourly(<<10, 20, 10>>)
    /\ r_out.raised = ""

\* C7: when the inferred source resolution is finer than the sensor's, the
\* result has one value per bucket of the sensor's resolution, the arithmetic
\* mean of the source values whose timestamps fall in that bucket.
C7_MeanPerBucket ==
    \A res \in SourceResolutions :
        (r_pc # "start" /\ HasResolution(r_in, res) /\ res < r_target)
            => LET out == r_out.value
                   Bucket(b) == {t \in DOMAIN r_in : b <= t /\ t < b + r_target}
               IN  /\ r_out.raised = ""
                   /\ \A b \in DOMAIN out :
                        /\ Bucket(b) # {}
                        /\ FMul(out[b], Num(Cardinality(Bucket(b))))
                              = SumOver(r_in, Bucket(b))
                   /\ \A b1, b2 \in DOMAIN out : (b1 - b2) % r_target = 0
                   /\ \A t \in DOMAIN r_in : \E b \in DOMAIN out : t \in Bucket(b)

C7_Witness ==
    /\ r_pc # "start"
    /\ HasResolution(r_in, Min15)
    /\ r_target = Hour
    /\ \E b \in DOMAIN r_out.value : r_out.value[b] \notin {Num(v) : v \in Values}

\* C8: resample_if_needed raises, and returns no series, whenever no uniform
\* frequency can be inferred from the timestamps: for an irregularly spaced
\* series and for a series of fewer than three points, a single point included.
C8_ErrorWhenNoFrequency ==
    (r_pc # "start" /\ (Cardinality(DOMAIN r_in) < 3 \/ Cardinality(Gaps(DOMAIN r_in)) # 1))
        => r_out = Raised(ValueError)

C8_Witness ==
    /\ r_pc # "start"
    /\ Cardinality(DOMAIN r_in) = 1
    /\ r_out.raised = ValueError

C8_WitnessIrregular ==
    /\ r_pc # "start"
    /\ Cardinality(DOMAIN r_in) = MaxLen
    /\ Cardinality(Gaps(DOMAIN r_in)) = 2
    /\ r_out.raised = ValueError

\* C9 as stated: a uniform series of resolution res, upsampled to a finer
\* resolution that divides res and downsampled back to res, is recovered
\* exactly, timestamps and values.
C9_RoundTrip ==
    \A res \in SourceResolutions :
        (r_pc = "back" /\ HasResolution(r_in, res) /\ r_target < res
                       /\ res % r_target = 0)
            => r_back = Returned(r_in)

\* C9, amended: a uniform series of at least three points and resolution res
\* whose first timestamp lies a whole multiple of res after local midnight,
\* upsampled to a finer resolution that divides res and downsampled back to
\* res, is recovered exactly, timestamps and values.
C9_RoundTripWhenAligned ==
    \A res \in SourceResolutions :
        (r_pc = "back" /\ HasResolution(r_in, res) /\ r_target < res
                       /\ res % r_target = 0 /\ (First(r_in) % Day) % res = 0)
            => r_back = Returned(r_in)

C9_Witness ==
    /\ r_pc = "back"
    /\ HasResolution(r_in, Hour)
    /\ r_target = Min15
    /\ First(r_in) % Day = Day - Hour
    /\ \E t \in DOMAIN r_in : r_in[t] # r_in[First(r_in)]
    /\ r_back = Returned(r_in)

(***************************************************************************)
(* Properties of the belief times.                                         *)
(***************************************************************************)
\* The local midnight of the day an instant falls in.
MidnightOf(e) == CHOOSE m \in (e - Day + 1)..e : m % Day = 0

\* C3: every event e of a saved series gets exactly one belief time, the
\* local midnight of e's day minus 6 hours when that instant is not later than
\* now and now otherwise; no belief time exceeds now.
C3_BeliefTimeClipped ==
    b_pc = "packaged" =>
        LET now == IF b_now = NoneArg THEN b_clock ELSE b_now[1]
            bt == b_bdf.belief_time
        IN  /\ DOMAIN bt = DOMAIN b_series
            /\ \A e \in DOMAIN b_series :
                 LET published == MidnightOf(e) - (6 * Hour)
                 IN  /\ published <= now => bt[e] = published
                     /\ published > now => bt[e] = now
                     /\ bt[e] <= now

C3_Witness ==
    /\ b_pc = "packaged"
    /\ b_now # NoneArg
    /\ \E e1, e2 \in DOMAIN b_series :
         /\ b_bdf.belief_time[e1] = MidnightOf(e1) - (6 * Hour)
         /\ b_bdf.belief_time[e1] < b_now[1]
         /\ b_bdf.belief_time[e2] = b_now[1]
         /\ MidnightOf(e2) - (6 * Hour) > b_now[1]

\* C28: for every belief save_entsoe_series produces, and for every value of
\* now, the belief time is not later than the event time it annotates, and
\* belief times are non-decreasing in event time: e1 <= e2 implies
\* belief_time(e1) <= belief_time(e2).
C28_BeliefTimeNotAfterEvent ==
    b_pc = "packaged" =>
        LET bt == b_bdf.belief_time
        IN  /\ \A e \in DOMAIN b_series : bt[e] <= e
            /\ \A e1, e2 \in DOMAIN b_series : e1 <= e2 => bt[e1] <= bt[e2]

C28_Witness ==
    /\ b_pc = "packaged"
    /\ \E e1, e2 \in DOMAIN b_series :
         /\ e1 < e2
         /\ b_bdf.belief_time[e1] < b_bdf.belief_time[e2]
         /\ b_bdf.belief_time[e1] = floor_D(e1) - SixHours
         /\ b_bdf.belief_time[e2] < floor_D(e2) - SixHours

\* C23: save_entsoe_series rejects an empty input series with an error before
\* it builds the belief collection and before it calls the belief store: a
\* call with an empty series never gets as far as the packaged beliefs.
C23_EmptySeriesRejected == IsEmpty(b_series) => b_pc # "packaged"

(***************************************************************************)
(* Properties of the import commands.                                      *)
(***************************************************************************)
EmptyAnswered == \E k \in 1..Len(fetches) : fetches[k].empty

\* The check that follows the answer to a query.
CheckAfter(query) ==
    IF query = "generation_forecast" THEN "check_scheduled"
    ELSE IF query = "wind_and_solar_forecast" THEN "check_green"
    ELSE "check_prices"

\* C1: in both import commands, once an upstream query has answered with an
\* empty series or table the run does nothing but abort, and save_to_db has
\* not been called in that run, whatever the dry-run flag and the dates.
C1_EmptyAnswerAborts ==
    EmptyAnswered =>
        /\ saved = <<>>
        /\ fetches[Len(fetches)].empty
        /\ pc \in {CheckAfter(fetches[Len(fetches)].query), "aborted"}

C1_Witness ==
    /\ cmd = "generation"
    /\ ~opts.dryrun
    /\ Len(fetches) = 2
    /\ EmptyAnswered
    /\ pc = "aborted"

\* C2: an import invoked with dry-run enabled never calls the belief store,
\* whatever the upstream queries answer, in either command.
C2_DryRunNeverSaves == opts.dryrun => saved = <<>>

C2_Witness ==
    /\ opts.dryrun
    /\ cmd = "generation"
    /\ pc = "done"
    /\ ~EmptyAnswered
    /\ \E t \in DOMAIN loc.forecasted_kg_CO2_per_MWh :
         IsFinite(loc.forecasted_kg_CO2_per_MWh[t])

\* C10: for every period the CO2 intensity of the generation import is
\* (scheduled*F + solar*44.5/1000 + onshore*14 + offshore*17) divided by
\* (scheduled + solar + onshore + offshore) with F = 0.0718*870 + 0.598*464
\* + 0.045*652 = 369.278; the divisor holds the scheduled series and the
\* three raw renewable columns only.  A period one of the inputs lacks has
\* no intensity (NaN).
C10_IntensityFormula ==
    (cmd = "generation" /\ pc \in {"save", "done"}) =>
        LET sched == loc.scheduled_generation
            df == loc.green_generation_df
            out == loc.forecasted_kg_CO2_per_MWh
            F == Rat(369278, 1000)
        IN  /\ DOMAIN out = DOMAIN sched \cup DOMAIN df["Solar"]
            /\ \A t \in DOMAIN out :
                 IF t \in DOMAIN sched /\ t \in DOMAIN df["Solar"]
                 THEN LET mass == FAdd(FAdd(FAdd(FMul(sched[t], F),
                                                 FMul(df["Solar"][t], Rat(445, 10000))),
                                            FMul(df["Wind Onshore"][t], Num(14))),
                                       FMul(df["Wind Offshore"][t], Num(17)))
                          generation == FAdd(FAdd(FAdd(sched[t], df["Solar"][t]),
                                                  df["Wind Onshore"][t]),
                                             df["Wind Offshore"][t])
                      IN  out[t] = FDiv(mass, generation)
                 ELSE out[t] = NaN

C10_Witness ==
    /\ cmd = "generation"
    /\ pc \in {"save", "done"}
    /\ \E t \in DOMAIN loc.forecasted_kg_CO2_per_MWh :
         /\ IsFinite(loc.forecasted_kg_CO2_per_MWh[t])
         /\ loc.scheduled_generation[t] # Num(0)
         /\ loc.green_generation_df["Solar"][t] # Num(0)
         /\ loc.green_generation_df["Wind Offshore"][t] # Num(0)

\* a <= b for finite values.
FLeq(a, b) == a[1] * b[2] <= b[1] * a[2]

\* A period of scenario A: some scheduled generation, no renewable generation.
ScenarioAPeriod(t, mw) ==
    /\ t \in DOMAIN loc.scheduled_generation
    /\ t \in TableIndex(loc.green_generation_df)
    /\ loc.scheduled_generation[t] = Num(mw)
    /\ \A c \in Columns : loc.green_generation_df[c][t] = Num(0)

\* C11 as stated: with scheduled generation 100 and 200 MW and the three
\* renewable series zero, the intensity of both periods is the grey intensity
\* factor, approximately 384.4 kg/MWh (here: within 0.05 of it).
C11_ScenarioA_384 ==
    (cmd = "generation" /\ pc \in {"save", "done"}) =>
        \A t \in DOMAIN loc.forecasted_kg_CO2_per_MWh : \A mw \in {100, 200} :
            ScenarioAPeriod(t, mw) =>
                /\ FLeq(Rat(38435, 100), loc.forecasted_kg_CO2_per_MWh[t])
                /\ FLeq(loc.forecasted_kg_CO2_per_MWh[t], Rat(38445, 100))

\* C11, amended: with scheduled generation 100 and 200 MW and the three
\* renewable series zero, the intensity of both periods is the grey intensity
\* factor 870*0.0718 + 464*0.598 + 652*0.045, which is 369.278 kg/MWh.
C11_ScenarioA ==
    (cmd = "generation" /\ pc \in {"save", "done"}) =>
        \A t \in DOMAIN loc.forecasted_kg_CO2_per_MWh : \A mw \in {100, 200} :
            ScenarioAPeriod(t, mw) =>
                loc.forecasted_kg_CO2_per_MWh[t] = Rat(369278, 1000)

C11_Witness ==
    /\ cmd = "generation"
    /\ pc \in {"save", "done"}
    /\ \E t1, t2 \in DOMAIN loc.forecasted_kg_CO2_per_MWh :
         /\ ScenarioAPeriod(t1, 100)
         /\ ScenarioAPeriod(t2, 200)
         /\ loc.forecasted_kg_CO2_per_MWh[t1] = loc.forecasted_kg_CO2_per_MWh[t2]
         /\ IsFinite(loc.forecasted_kg_CO2_per_MWh[t1])

\* The three renewable columns of the frame, as fetched.
RawColumns(df) == [c \in Columns |-> df[c]]

\* Every value of a series, or of every column of a table, times k.
Times(s, k) == [t \in DOMAIN s |-> FMul(s[t], k)]

TableTimes(df, k) == [c \in DOMAIN df |-> Times(df[c], k)]

ScaleFactors == {Num(2), Num(3), Rat(1, 2), Num(-1)}

\* C12: for every non-zero factor k, multiplying the scheduled series and the
\* three renewable series by k leaves the computed CO2 intensity unchanged in
\* every period whose combined generation is not zero.
C12_ScaleInvariance ==
    (cmd = "generation" /\ pc \in {"save", "done"}) =>
        \A k \in ScaleFactors :
            LET sched == loc.scheduled_generation
                raw == RawColumns(loc.green_generation_df)
                combined == SeriesAdd(sched, SumColumns(raw))
                scaled == derive(Times(sched, k),
                                 TableTimes(raw, k)).forecasted_kg_CO2_per_MWh
            IN  /\ DOMAIN scaled = DOMAIN loc.forecasted_kg_CO2_per_MWh
                /\ \A t \in DOMAIN scaled :
                     combined[t] \notin {NaN, Num(0)}
                         => scaled[t] = loc.forecasted_kg_CO2_per_MWh[t]

C12_Witness ==
    /\ cmd = "generation"
    /\ pc \in {"save", "done"}
    /\ \E t \in DOMAIN loc.forecasted_kg_CO2_per_MWh :
         /\ IsFinite(loc.forecasted_kg_CO2_per_MWh[t])
         /\ loc.forecasted_kg_CO2_per_MWh[t] # Rat(369278, 1000)
         /\ loc.scheduled_generation[t] = Num(200)
         /\ loc.green_generation_df["Wind Onshore"][t] = Num(60)

\* The generation and the CO2 mass of period t, from the inputs of that
\* period alone.
PeriodGeneration(sched, df, t) ==
    FAdd(FAdd(FAdd(sched[t], df["Solar"][t]), df["Wind Onshore"][t]),
         df["Wind Offshore"][t])

PeriodMass(sched, df, t) ==
    FAdd(FAdd(FAdd(FMul(sched[t], Rat(369278, 1000)),
                   FMul(df["Solar"][t], Rat(445, 10000))),
              FMul(df["Wind Onshore"][t], Num(14))),
         FMul(df["Wind Offshore"][t], Num(17)))

\* The sensor names the generation import has a series for.
SeriesNames == {"Scheduled generation", "Solar", "Wind Onshore", "Wind Offshore",
                "CO2 intensity"}

\* The beliefs saved for the named sensor, in the order of the calls.
SavedFor(name) == SelectSeq(saved, LAMBDA b : b.sensor = name)

\* C13: in a period whose combined generation (scheduled + renewables) is
\* zero the intensity is NaN, the intensity of every other period is that
\* period's CO2 mass over that period's generation, and the run does not
\* abort because of it: it goes on to the save loop, where only a sensor
\* without a series aborts it, and a non-dry-run that completes has saved the
\* intensity series, NaN included.
C13_ZeroGenerationGivesNaN ==
    (cmd = "generation" /\ loc.i >= 1) =>
        LET sched == loc.scheduled_generation
            df == loc.green_generation_df
            out == loc.forecasted_kg_CO2_per_MWh
        IN  /\ pc \in {"save", "done", "aborted"}
            /\ pc = "aborted" => loc.sensors[loc.i].name \notin SeriesNames
            /\ \A t \in DOMAIN sched \cap TableIndex(df) :
                 IF PeriodGeneration(sched, df, t) = Num(0)
                 THEN out[t] = NaN
                 ELSE /\ IsFinite(out[t])
                      /\ FMul(out[t], PeriodGeneration(sched, df, t))
                            = PeriodMass(sched, df, t)
            /\ (pc = "done" /\ ~opts.dryrun) =>
                 /\ Len(SavedFor("CO2 intensity")) = 1
                 /\ SavedFor("CO2 intensity")[1].event_value = out

C13_Witness ==
    /\ cmd = "generation"
    /\ pc = "done"
    /\ ~opts.dryrun
    /\ \E t1, t2 \in DOMAIN loc.scheduled_generation
                        \cap TableIndex(loc.green_generation_df) :
         /\ PeriodGeneration(loc.scheduled_generation, loc.green_generation_df, t1) = Num(0)
         /\ SavedFor("CO2 intensity")[1].event_value[t1] = NaN
         /\ IsFinite(SavedFor("CO2 intensity")[1].event_value[t2])

\* C14: in every generation import that ends in an abort or an error (missing
\* token, empty upstream data, no inferable resolution, a sensor without a
\* series), save_to_db has not been called for any sensor, whatever the
\* sensor specifications.
C14_NoPartialWrites ==
    (cmd = "generation" /\ pc \in {"aborted", "error"}) => saved = <<>>

\* The computed series that belongs to a sensor name.
SeriesOf(name) ==
    CASE name = "Scheduled generation" -> loc.scheduled_generation
      [] name = "CO2 intensity" -> loc.forecasted_kg_CO2_per_MWh
      [] OTHER -> loc.green_generation_df[name]

\* C15: in the generation import every configured sensor is mapped by name to
\* its one computed series (Scheduled generation, Solar, Wind Onshore, Wind
\* Offshore, CO2 intensity), and a run whose configured sensors include a name
\* without a series aborts: it never completes with that sensor skipped.
C15_EverySensorRoutedOrAbort ==
    cmd = "generation" =>
        /\ \A k \in 1..Len(saved) :
             /\ saved[k].sensor = loc.sensors[k].name
             /\ saved[k].sensor \in SeriesNames
             /\ saved[k].event_value = SeriesOf(saved[k].sensor)
        /\ pc = "done" => \A k \in 1..Len(specs) : specs[k].name \in SeriesNames

\* The token the configuration selects: the test server's when
\* ENTSOE_USE_TEST_SERVER is set, the production server's otherwise.
SelectedToken ==
    IF config.ENTSOE_USE_TEST_SERVER
    THEN config.ENTSOE_AUTH_TOKEN_TEST_SERVER
    ELSE config.ENTSOE_AUTH_TOKEN

\* C16: when the token the configuration selects is missing or empty, the
\* import aborts at the creation of the client: no upstream query is issued
\* and no belief is saved, in either command.
C16_MissingTokenAbortsBeforeFetch ==
    SelectedToken = "" =>
        /\ pc \in {"start", "create_client", "aborted"}
        /\ fetches = <<>>
        /\ saved = <<>>

C16_Witness ==
    /\ SelectedToken = ""
    /\ config.ENTSOE_USE_TEST_SERVER
    /\ config.ENTSOE_AUTH_TOKEN # ""
    /\ ~opts.dryrun
    /\ pc = "aborted"
    /\ loc.entsoe_URL = "https://iop-transparency.entsoe.eu/api"

\* C17: a dry-run generation import that completes has gone through every
\* stage but the save: the loop over the sensors has looked up the series of
\* every configured sensor (loc.i has passed the last sensor), which aborts
\* the run at a sensor without a series, and only save_to_db has been left out.
C17_DryRunRoutesAndPackages ==
    (cmd = "generation" /\ opts.dryrun /\ pc = "done") =>
        /\ loc.i = Len(loc.sensors) + 1
        /\ \A k \in 1..Len(loc.sensors) : loc.sensors[k].name \in SeriesNames
        /\ saved = <<>>

\* C18 as stated: in every generation import the beliefs of a sensor flagged
\* as sourced directly are attributed to the data source "ENTSO-E", the
\* beliefs of a sensor not so flagged (CO2 intensity) to the derived data
\* source, and the two sources are distinct.
C18_SourcesAttributedAndDistinct ==
    (cmd = "generation" /\ pc # "start") =>
        /\ \A k \in 1..Len(saved) :
             saved[k].source = IF loc.sensors[k].data_by_entsoe
                               THEN "ENTSO-E"
                               ELSE loc.derived_data_source
        /\ loc.entsoe_data_source = "ENTSO-E"
        /\ loc.derived_data_source # loc.entsoe_data_source

\* The name configured for the derived data source, or the default.
ConfiguredDerivedName ==
    IF config.ENTSOE_DERIVED_DATA_SOURCE = NoneArg
    THEN "FlexMeasures ENTSO-E"
    ELSE config.ENTSOE_DERIVED_DATA_SOURCE[1]

\* C18, amended: in every generation import the beliefs of a sensor flagged as
\* sourced directly are attributed to the data source "ENTSO-E" and the
\* beliefs of a sensor not so flagged (CO2 intensity) to the derived data
\* source, which is named by ENTSOE_DERIVED_DATA_SOURCE and by default
\* "FlexMeasures ENTSO-E"; the two sources are distinct unless that setting
\* names "ENTSO-E" itself.
C18_SourcesAttributed ==
    (cmd = "generation" /\ pc # "start") =>
        /\ \A k \in 1..Len(saved) :
             saved[k].source = IF loc.sensors[k].data_by_entsoe
                               THEN "ENTSO-E"
                               ELSE ConfiguredDerivedName
        /\ loc.entsoe_data_source = "ENTSO-E"
        /\ loc.derived_data_source = ConfiguredDerivedName
        /\ {"ENTSO-E", ConfiguredDerivedName} \subseteq db.sources
        /\ ConfiguredDerivedName # "ENTSO-E"
             => loc.derived_data_source # loc.entsoe_data_source

C18_Witness ==
    /\ cmd = "generation"
    /\ pc = "done"
    /\ Len(saved) = 5
    /\ config.ENTSOE_DERIVED_DATA_SOURCE = Some("CO2 estimates")
    /\ \E k \in 1..5 : ~loc.sensors[k].data_by_entsoe /\ saved[k].source = "CO2 estimates"
    /\ \E k \in 1..5 : loc.sensors[k].data_by_entsoe /\ saved[k].source = "ENTSO-E"

\* The columns calculate_CO2_content_in_kg adds.
CO2Columns == {"solar CO2", "wind_onshore CO2", "wind_offshore CO2"}

\* The derivation adds the three CO2 columns to the renewable table and
\* changes nothing else of it, nor the scheduled series; no other step after
\* the fetch touches the table.
C29_OnlyColumnsAdded ==
    /\ (cmd = "generation" /\ pc = "derive") =>
         /\ DOMAIN loc'.green_generation_df = Columns \cup CO2Columns
         /\ RawColumns(loc'.green_generation_df) = loc.green_generation_df
         /\ TableIndex(loc'.green_generation_df) = TableIndex(loc.green_generation_df)
         /\ loc'.scheduled_generation = loc.scheduled_generation
    /\ (cmd = "generation" /\ pc \in {"check_green", "save"}) =>
         /\ loc'.green_generation_df = loc.green_generation_df
         /\ loc'.scheduled_generation = loc.scheduled_generation

\* What is saved for the Solar and wind sensors is the column of that name,
\* and the intensity divides by the scheduled series plus the three
\* renewable columns, the added CO2 columns not among them.
C29_RoutedAsFetched ==
    (cmd = "generation" /\ loc.i >= 1) =>
        LET sched == loc.scheduled_generation
            df == loc.green_generation_df
            out == loc.forecasted_kg_CO2_per_MWh
        IN  /\ \A k \in 1..Len(saved) :
                 saved[k].sensor \in Columns
                     => saved[k].event_value = df[saved[k].sensor]
            /\ \A t \in DOMAIN sched \cap TableIndex(df) :
                 out[t] = FDiv(PeriodMass(sched, df, t), PeriodGeneration(sched, df, t))

\* C29: calculate_CO2_content_in_kg changes the renewable table it is given
\* only by adding three derived CO2 columns: the Solar, Wind Onshore and Wind
\* Offshore columns and the scheduled series keep their values, so the series
\* routed to the Solar and wind sensors are the fetched values, and the
\* aggregated green generation, summed before the columns are added, does not
\* include them.
C29_TableOnlyExtended == []C29_RoutedAsFetched /\ [][C29_OnlyColumnsAdded]_vars

C29_Witness ==
    /\ cmd = "generation"
    /\ pc = "done"
    /\ Len(saved) = 5
    /\ DOMAIN loc.green_generation_df = Columns \cup CO2Columns
    /\ \E k \in 1..5 : \E t \in DOMAIN saved[k].event_value :
         /\ saved[k].sensor = "Solar"
         /\ saved[k].event_value[t] = Num(50)
         /\ loc.green_generation_df["solar CO2"][t] = Rat(2225, 1000)

\* C27: every series the generation import hands to save_entsoe_series has
\* its timestamps spaced exactly at the event resolution of the sensor it is
\* saved for (15 min for Scheduled generation and CO2 intensity, 1 h for
\* Solar, Wind Onshore and Wind Offshore), whatever uniform resolution the
\* scheduled series and the renewable table were fetched at.
C27_SavedAtSensorResolution ==
    cmd = "generation" =>
        \A k \in 1..Len(saved) :
            Gaps(DOMAIN saved[k].event_value) \subseteq {loc.sensors[k].event_resolution}

\* The queries answered so far, in order.
Queries == [k \in 1..Len(fetches) |-> fetches[k].query]

\* C26 as stated: in the generation import all upstream fetches are issued
\* and validated non-empty before any normalization or derivation starts, so
\* no fetch follows a NORMALIZE, DERIVE, ROUTE, PACKAGE or PERSIST step: when
\* the run is about to normalise, derive or save, both queries have answered
\* non-empty.
C26_AllFetchesBeforeNormalize ==
    (cmd = "generation" /\ pc \in {"resample", "derive", "save"}) =>
        /\ Queries = <<"generation_forecast", "wind_and_solar_forecast">>
        /\ ~EmptyAnswered

\* The stages of the generation import, numbered in the order of the code.
StageOf(p) ==
    CASE p = "start" -> 1
      [] p = "create_client" -> 2
      [] p = "fetch_scheduled" -> 3
      [] p = "check_scheduled" -> 4
      [] p = "resample" -> 5
      [] p = "fetch_green" -> 6
      [] p = "check_green" -> 7
      [] p = "derive" -> 8
      [] p = "save" -> 9
      [] OTHER -> 10

C26_FetchedSoFar ==
    cmd = "generation" =>
        /\ StageOf(pc) <= 3 => fetches = <<>>
        /\ StageOf(pc) \in 4..6 => Queries = <<"generation_forecast">>
        /\ StageOf(pc) \in 5..6 => ~EmptyAnswered
        /\ StageOf(pc) \in 7..9 =>
             Queries = <<"generation_forecast", "wind_and_solar_forecast">>
        /\ StageOf(pc) \in 8..9 => ~EmptyAnswered
        /\ loc.i >= 1 =>
             /\ Queries = <<"generation_forecast", "wind_and_solar_forecast">>
             /\ ~EmptyAnswered

C26_StagesInOrder ==
    (cmd = "generation" /\ pc' # "start") =>
        /\ StageOf(pc') > StageOf(pc) \/ (pc = "save" /\ pc' = "save")
        /\ fetches' # fetches => pc \in {"fetch_scheduled", "fetch_green"} /\ loc.i = 0

\* C26, amended: every generation-import run passes through the stages in the
\* order of the code, never back: the scheduled series is fetched, validated
\* non-empty and normalised, then the renewable table is fetched and
\* validated non-empty; derivation starts only after both queries have
\* answered non-empty, and no upstream fetch is issued after a DERIVE, ROUTE,
\* PACKAGE or PERSIST step of the same run.
C26_StagesPerSeries == []C26_FetchedSoFar /\ [][C26_StagesInOrder]_vars

C26_Witness ==
    /\ cmd = "generation"
    /\ pc = "done"
    /\ Len(saved) = 5
    /\ Queries = <<"generation_forecast", "wind_and_solar_forecast">>
    /\ Cardinality(DOMAIN loc.scheduled_generation) > MaxFetch

(***************************************************************************)
(* Properties of an import command on a host of its own.                   *)
(***************************************************************************)
\* The window the command queries, once it has parsed its dates.
QueryWindow == [from_time |-> loc.from_time, until_time |-> loc.until_time]

\* C21: the query window is [from, to + 1 calendar day) in the zone's
\* timezone, to_date inclusive; when --from-date is absent from is the
\* midnight that began today in the zone, and when --to-date is absent to is
\* the zone's next midnight, so the default window is all of today and
\* tomorrow.  The model's clock shows the zone's time.
C21_WindowTodayAndTomorrow ==
    pc = "create_client" =>
        LET today == floor_D(clock)
            from == IF opts.from_date = NoneArg THEN today ELSE opts.from_date[1]
            to == IF opts.to_date = NoneArg THEN today + Day ELSE opts.to_date[1]
        IN  /\ QueryWindow = [from_time |-> from, until_time |-> to + Day]
            /\ (opts.from_date = NoneArg /\ opts.to_date = NoneArg)
                 => /\ loc.from_time <= clock
                    /\ clock < loc.from_time + Day
                    /\ loc.until_time = loc.from_time + 2 * Day

\* C22 as stated: whatever outcome the belief store answers a save with,
\* save_entsoe_series logs that outcome and returns normally, and the run
\* goes on.
C22_OutcomeLoggedAndRunGoesOn ==
    loc.status # "" =>
        /\ Len(loc.logged) = 1
        /\ pc \in {"save", "done"}

\* What is logged about an outcome.
OutcomeMessage(status) ==
    CASE status = "success_but_nothing_new" ->
             <<"Done. These beliefs had already been saved before.">>
      [] status = "success_with_unchanged_beliefs_skipped" ->
             <<"Done. Some beliefs had already been saved before.">>
      [] status = "success" -> <<>>

C22_OutcomeHandled ==
    /\ loc.status # "" =>
         /\ loc.status \in SaveOutcomes
         /\ loc.logged = OutcomeMessage(loc.status)
         /\ pc \in {"save", "done"}
         /\ saved # <<>>
    /\ (pc = "done" /\ ~opts.dryrun) =>
         /\ Len(saved) = Len(loc.sensors)
         /\ loc.status \in host.save_outcomes

C22_SaveGoesOn == pc \in {"save", "save_prices"} => pc' \in {"save", "save_prices", "done"}

\* C22, amended: whatever outcome the belief store answers a save with
\* (created, nothing new, partially unchanged), save_entsoe_series returns
\* normally: no outcome aborts or fails the run, and a run whose saves all
\* report "nothing new" ends in success with every sensor's save made.  It
\* logs the outcome when it is "nothing new" or "partially unchanged"; when
\* all beliefs were created it logs nothing.
C22_OutcomeNeverFailsRun == []C22_OutcomeHandled /\ [][C22_SaveGoesOn]_vars

C22_Witness ==
    /\ cmd = "generation"
    /\ pc = "done"
    /\ host.save_outcomes = {"success_but_nothing_new"}
    /\ Len(saved) = 5
    /\ loc.status = "success_but_nothing_new"
    /\ Len(loc.logged) = 1

\* C24: a run that aborts because an upstream query answered empty leaves
\* all persistent state as it was before the run: no data was saved, and no
\* zone type, zone asset, sensor or other row was added to the session or
\* committed, on a first run for the zone as on a later one.
C24_EmptyAbortLeavesNoTrace ==
    (EmptyAnswered /\ pc = "aborted") =>
        /\ saved = <<>>
        /\ session = NoSession

C30_OneSavePerSensor ==
    (cmd = "generation" /\ pc = "done" /\ ~opts.dryrun) =>
        /\ Len(loc.sensors) = 5
        /\ Len(saved) = 5
        /\ \A k \in 1..5 :
             /\ saved[k].sensor = loc.sensors[k].name
             /\ saved[k].belief_time =
                    [e \in DOMAIN saved[k].event_value |->
                        IF floor_D(e) - SixHours > loc.now
                        THEN loc.now ELSE floor_D(e) - SixHours]
        /\ \A j, k \in 1..5 : saved[j].sensor = saved[k].sensor => j = k
        /\ loc.now <= clock

C30_NowReadOnce ==
    loc'.now # loc.now =>
        /\ pc = "create_client"
        /\ fetches = <<>>
        /\ saved = <<>>
        /\ loc'.now = clock

\* C30: a generation import that is not a dry run and reaches its end has
\* called the belief store exactly once per configured sensor: five calls,
\* in the order of the sensors, none repeated.  Every call clips its belief
\* times against the same now, the instant start_import_log read before the
\* first upstream query, however far the server's clock has moved on by the
\* time of the save.
C30_OncePerSensorSameNow == []C30_OneSavePerSensor /\ [][C30_NowReadOnce]_vars

C30_Witness ==
    /\ cmd = "generation"
    /\ pc = "done"
    /\ ~opts.dryrun
    /\ Len(saved) = 5
    /\ clock > loc.now
    /\ \A k \in 1..5 : \E e \in DOMAIN saved[k].event_value :
           /\ saved[k].belief_time[e] = loc.now
           /\ floor_D(e) - SixHours > loc.now

(***************************************************************************)
(* Properties of two import commands ensuring their zone at once.          *)
(***************************************************************************)
\* The committed assets with the zone name of country_code.
ZonesNamed(country_code) == {a \in c_db.assets : a.name = ga_name(country_code)}

C25_ZonesBounded ==
    \A p \in Procs :
        LET zones == ZonesNamed(c_loc[p].country_code)
        IN  /\ c_unique => Cardinality(zones) <= 1
            /\ Cardinality(zones) <= Cardinality(Procs)

C25_ZoneAddedWhenFoundAbsent ==
    \A p \in Procs :
        c_session'[p].assets \ c_session[p].assets # {} =>
            /\ c_pc[p] = "if_zone"
            /\ c_loc[p].transmission_zone = NoneArg
            /\ \A q \in Procs \ {p} : c_session'[q] = c_session[q]
            /\ c_db' = c_db

\* C25: two first imports for one country code that interleave at the
\* granularity of registry queries, adds and commits can both find the zone
\* absent and both create it: nothing in the ensure step keeps the second
\* command from adding the zone between the first one's query and commit.
\* A registry with two assets named "{country_code} transmission zone" is
\* reachable where asset names are not unique; where the persistence layer
\* enforces their uniqueness at most one zone of a name is committed in
\* every reachable state.  A command adds a zone only when its own query
\* found none.
C25_TwoZonesUnlessUnique == []C25_ZonesBounded /\ [][C25_ZoneAddedWhenFoundAbsent]_vars

C25_Witness ==
    /\ ~c_unique
    /\ \A p \in Procs : c_pc[p] = "done" /\ c_loc[p].country_code = DEFAULT_COUNTRY_CODE
    /\ Cardinality(ZonesNamed(DEFAULT_COUNTRY_CODE)) = 2

(***************************************************************************)
(* Properties of the registry over a sequence of import commands.          *)
(***************************************************************************)
\* The country code of the running command.
RunCountryCode ==
    IF opts.country_code # NoneArg THEN opts.country_code[1]
    ELSE IF config.ENTSOE_COUNTRY_CODE # NoneArg THEN config.ENTSOE_COUNTRY_CODE[1]
    ELSE "NL"

\* The assets named "{country_code} transmission zone".
ZoneAssets(registry, country_code) ==
    {a \in registry.assets : a.name = <<country_code, "transmission zone">>}

\* The sensors of a (name, unit) on an asset.
SensorsOf(registry, spec, zone) ==
    {s \in registry.sensors :
        s.name = spec.name /\ s.unit = spec.unit /\ s.generic_asset = zone.id}

\* The registry holds exactly one zone asset for the country and, on it,
\* exactly one sensor per specification.
HoldsExactlyOne(registry, sensor_specifications, country_code) ==
    /\ Cardinality(ZoneAssets(registry, country_code)) = 1
    /\ \A zone \in ZoneAssets(registry, country_code) :
         \A k \in 1..Len(sensor_specifications) :
             Cardinality(SensorsOf(registry, sensor_specifications[k], zone)) = 1

\* No two rows share a primary key, no two assets a name, no two sensors a
\* (name, unit, asset).
NoDuplicates(registry) ==
    /\ \A a1, a2 \in registry.assets : (a1.id = a2.id \/ a1.name = a2.name) => a1 = a2
    /\ \A s1, s2 \in registry.sensors :
         (s1.id = s2.id \/ (s1.name = s2.name /\ s1.unit = s2.unit
                            /\ s1.generic_asset = s2.generic_asset)) => s1 = s2

C19_ExactlyOne ==
    /\ NoDuplicates(db)
    /\ pc # "start" =>
         /\ HoldsExactlyOne(db, specs, RunCountryCode)
         /\ \A zone \in ZoneAssets(db, RunCountryCode) :
              \A k \in 1..Len(loc.sensors) : loc.sensors[k].generic_asset = zone.id

C19_CreatesNothing ==
    (pc = "start" /\ HoldsExactlyOne(db, specs, RunCountryCode)) =>
        /\ db'.assets = db.assets
        /\ db'.asset_types = db.asset_types
        /\ {s.id : s \in db'.sensors} = {s.id : s \in db.sensors}
        /\ Cardinality(db'.sensors) = Cardinality(db.sensors)

\* C19: at every point of any sequence of import commands run one after the
\* other for a country code, once a command has ensured its sensors the
\* registry holds exactly one asset "{country_code} transmission zone" and
\* exactly one sensor per configured (name, unit) on it, all the command's
\* sensors are on that asset, and a command that finds them all in the
\* registry adds no asset, no asset type and no sensor.
C19_EnsureIdempotent == []C19_ExactlyOne /\ [][C19_CreatesNothing]_vars

C19_Witness ==
    /\ runs = 2
    /\ cmd = "generation"
    /\ pc = "done"
    /\ opts.country_timezone = NoneArg
    /\ specs = generation_sensors
    /\ Cardinality(db.assets) = 2
    /\ Cardinality(db.sensors) = 10
    /\ \E s \in db.sensors : s.name = "Scheduled generation" /\ s.event_resolution = Hour

\* The specifications of the running command that sensor s answers to.
SpecificationsOf(s) ==
    {specs[k] : k \in {j \in 1..Len(specs) :
        /\ specs[j].name = s.name
        /\ specs[j].unit = s.unit
        /\ \E zone \in ZoneAssets(db, RunCountryCode) : s.generic_asset = zone.id}}

\* A step keeps sensor s: it is still there under its primary key with its
\* name, unit, event resolution, timezone and asset, and its data_by_entsoe
\* flag is the specification's if the step ensured it and unchanged if not.
KeptWithFlag(s) ==
    \E t \in db'.sensors :
        /\ t.id = s.id
        /\ t.name = s.name
        /\ t.unit = s.unit
        /\ t.event_resolution = s.event_resolution
        /\ t.timezone = s.timezone
        /\ t.generic_asset = s.generic_asset
        /\ IF pc = "start" /\ opts.sensor = NoneArg /\ SpecificationsOf(s) # {}
           THEN \A spec \in SpecificationsOf(s) : t.data_by_entsoe = spec.data_by_entsoe
           ELSE t.data_by_entsoe = s.data_by_entsoe

\* C20: ensure_sensors leaves the name, unit, event resolution, timezone and
\* asset of a sensor that already exists as they are stored, also when the
\* command's specification or timezone differs from them, and sets its
\* data_by_entsoe flag to the specification's value on every run; no other
\* step of a command changes a stored sensor.
C20_ExistingSensorKept == [][\A s \in db.sensors : KeptWithFlag(s)]_vars

C20_Witness ==
    /\ runs = 2
    /\ cmd = "generation"
    /\ pc = "create_client"
    /\ specs = revised_generation_sensors
    /\ opts.country_timezone = NoneArg
    /\ \E s \in db.sensors :
         /\ s.name = "CO2 intensity"
         /\ \E zone \in ZoneAssets(db, "NL") : s.generic_asset = zone.id
         /\ s.timezone = "Europe/Brussels"
         /\ s.event_resolution = Min15
         /\ s.data_by_entsoe
         /\ s \in {loc.sensors[k] : k \in 1..Len(loc.sensors)}

====
